---- MODULE Spec2Model ----
(***************************************************************************)
(* Model of the formation-string parser of FormationService               *)
(* (formation.service.ts): parseFormationString, processSegment,          *)
(* tokenizeFormationString, parseVehicleGroup, parseVehicleToken,         *)
(* finalizeTrainSections and determineTravelDirection.                    *)
(*                                                                         *)
(* A JavaScript string is a sequence of one-character strings.  Indices   *)
(* passed to the Js* operators are JavaScript indices (0-based, -1 for    *)
(* "not found"); sequences themselves are indexed from 1 as usual.        *)
(***************************************************************************)
EXTENDS Integers, Sequences, FiniteSets, TLC

(***************************************************************************)
(* Character classes used by the regular expressions of the source.       *)
(***************************************************************************)
Digits == {"0", "1", "2", "3", "4", "5", "6", "7", "8", "9"}

UpperCase == {"A", "B", "C", "D", "E", "F", "G", "H", "I", "J", "K", "L", "M",
              "N", "O", "P", "Q", "R", "S", "T", "U", "V", "W", "X", "Y", "Z"}

StatusChars == {"-", ">", "=", "%"}

Min(a, b) == IF a < b THEN a ELSE b

Max(a, b) == IF a > b THEN a ELSE b

(***************************************************************************)
(* String primitives of the JavaScript runtime.                           *)
(***************************************************************************)
\* String.prototype.substring(a, b): clamps both ends and swaps them if a > b
JsSubstring(s, a, b) ==
    LET ca == Max(0, Min(a, Len(s)))
        cb == Max(0, Min(b, Len(s)))
    IN  SubSeq(s, Min(ca, cb) + 1, Max(ca, cb))

\* String.prototype.substring(a)
JsSubstringFrom(s, a) == JsSubstring(s, a, Len(s))

\* the pattern p occurs in s at JavaScript index i
MatchAt(s, i, p) ==
    /\ i >= 0
    /\ i + Len(p) <= Len(s)
    /\ SubSeq(s, i + 1, i + Len(p)) = p

StartsWith(s, p) == MatchAt(s, 0, p)

EndsWith(s, p) == MatchAt(s, Len(s) - Len(p), p)

Includes(s, p) == \E i \in 0..(Len(s) - Len(p)) : MatchAt(s, i, p)

\* String.prototype.indexOf(p, from): least index >= from, or -1
JsIndexOf(s, p, from) ==
    LET hits == {i \in Max(0, from)..(Len(s) - Len(p)) : MatchAt(s, i, p)}
    IN  IF hits = {} THEN -1 ELSE CHOOSE i \in hits : \A j \in hits : i <= j

\* String.prototype.trim() for the blank character
RECURSIVE TrimLeft(_)
TrimLeft(s) == IF s # <<>> /\ s[1] = " " THEN TrimLeft(Tail(s)) ELSE s

RECURSIVE TrimRight(_)
TrimRight(s) ==
    IF s # <<>> /\ s[Len(s)] = " " THEN TrimRight(SubSeq(s, 1, Len(s) - 1)) ELSE s

Trim(s) == TrimRight(TrimLeft(s))

\* String.prototype.split(sep) for a set of one-character separators
RECURSIVE SplitOn(_, _, _)
SplitOn(s, seps, cur) ==
    IF s = <<>> THEN <<cur>>
    ELSE IF s[1] \in seps THEN <<cur>> \o SplitOn(Tail(s), seps, <<>>)
    ELSE SplitOn(Tail(s), seps, Append(cur, s[1]))

\* length of the longest run of characters of class cls starting at index i
RECURSIVE RunLength(_, _, _)
RunLength(s, i, cls) ==
    IF i < Len(s) /\ s[i + 1] \in cls THEN 1 + RunLength(s, i + 1, cls) ELSE 0

(***************************************************************************)
(* Tokens (enum TokenType, interface FormationToken).                     *)
(***************************************************************************)
TokenType == {"SECTOR", "FICTITIOUS_WAGON", "BRACKET_OPEN", "BRACKET_CLOSE",
              "PARENTHESIS_OPEN", "PARENTHESIS_CLOSE", "COMMA", "BACKSLASH",
              "VEHICLE", "UNKNOWN"}

FormationToken(type, value, position) ==
    [type |-> type, value |-> value, position |-> position]

\* wagonTypes of isPotentialWagonToken, in source order
WagonTypeCodes ==
    << <<"1">>, <<"2">>, <<"1", "2">>, <<"C", "C">>, <<"F", "A">>, <<"W", "L">>,
       <<"W", "R">>, <<"W", "1">>, <<"W", "2">>, <<"L", "K">>, <<"D">>, <<"K">>,
       <<"X">> >>

isPotentialWagonToken(token) ==
    \/ (token # <<>> /\ token[1] \in StatusChars)
    \/ \E k \in 1..Len(WagonTypeCodes) : Includes(token, WagonTypeCodes[k])

createToken(value, position) ==
    IF StartsWith(value, <<"@">>) /\ Len(value) > 1
    THEN FormationToken("SECTOR", value, position)
    ELSE IF value = <<"F">>
    THEN FormationToken("FICTITIOUS_WAGON", value, position)
    ELSE IF isPotentialWagonToken(value)
    THEN FormationToken("VEHICLE", value, position)
    ELSE FormationToken("UNKNOWN", value, position)

\* the structural characters of the tokenizer and their token types
StructuralType(c) ==
    CASE c = "[" -> "BRACKET_OPEN"
      [] c = "]" -> "BRACKET_CLOSE"
      [] c = "(" -> "PARENTHESIS_OPEN"
      [] c = ")" -> "PARENTHESIS_CLOSE"
      [] c = "," -> "COMMA"
      [] c = "\\" -> "BACKSLASH"
      [] OTHER -> "NONE"

\* the loop of tokenizeFormationString from index i on: tokens so far,
\* currentToken and the position counter
RECURSIVE TokenizeFrom(_, _, _, _, _)
TokenizeFrom(s, i, tokens, currentToken, position) ==
    IF i >= Len(s)
    THEN IF currentToken # <<>>
         THEN Append(tokens, createToken(currentToken, position))
         ELSE tokens
    ELSE
      LET char == s[i + 1]
          flushed == IF currentToken # <<>>
                     THEN Append(tokens, createToken(currentToken, position))
                     ELSE tokens
          pos1 == IF currentToken # <<>> THEN position + 1 ELSE position
      IN  IF char = "@"
          THEN LET withLetter == i + 1 < Len(s) /\ s[i + 2] \in UpperCase
                   sectorToken == IF withLetter THEN <<"@", s[i + 2]>> ELSE <<"@">>
                   next == IF withLetter THEN i + 2 ELSE i + 1
               IN  TokenizeFrom(s, next,
                       Append(flushed, FormationToken("SECTOR", sectorToken, pos1)),
                       <<>>, pos1 + 1)
          ELSE IF StructuralType(char) # "NONE"
          THEN TokenizeFrom(s, i + 1,
                   Append(flushed, FormationToken(StructuralType(char), <<char>>, pos1)),
                   <<>>, pos1 + 1)
          ELSE IF char = "F" /\ currentToken = <<>>
          THEN TokenizeFrom(s, i + 1,
                   Append(tokens, FormationToken("FICTITIOUS_WAGON", <<"F">>, position)),
                   <<>>, position + 1)
          ELSE TokenizeFrom(s, i + 1, tokens, Append(currentToken, char), position)

tokenizeFormationString(formationString) ==
    TokenizeFrom(formationString, 0, <<>>, <<>>, 0)

\* the scan of extractBracketContent from index i on
RECURSIVE ExtractFrom(_, _, _, _, _, _)
ExtractFrom(str, openChar, closeChar, i, depth, start) ==
    IF i >= Len(str) THEN <<>>
    ELSE IF str[i + 1] = openChar
    THEN ExtractFrom(str, openChar, closeChar, i + 1, depth + 1,
                     IF depth = 0 THEN i + 1 ELSE start)
    ELSE IF str[i + 1] = closeChar
    THEN IF depth - 1 = 0 /\ start # -1
         THEN <<JsSubstring(str, start, i)>>
         ELSE ExtractFrom(str, openChar, closeChar, i + 1, depth - 1, start)
    ELSE ExtractFrom(str, openChar, closeChar, i + 1, depth, start)

\* null is the empty sequence, a found content c is <<c>>
extractBracketContent(str, openChar, closeChar) ==
    ExtractFrom(str, openChar, closeChar, 0, 0, -1)

(***************************************************************************)
(* Vehicle token decoder.                                                 *)
(***************************************************************************)
\* a status decoder that goes on to the other three sigils after Closed
parseWagonStatusNoElse(token) ==
    (IF StartsWith(token, <<"-">>) \/ Includes(token, <<"(", "-">>)
           \/ Includes(token, <<"@", "-">>)
     THEN <<"Closed">> ELSE <<>>)
    \o (IF Includes(token, <<">">>) THEN <<"Group boarding">> ELSE <<>>)
    \o (IF Includes(token, <<"=">>) THEN <<"Reserved for transit">> ELSE <<>>)
    \o (IF Includes(token, <<"%">>) THEN <<"Open but unserviced">> ELSE <<>>)

\* WagonStatus enum values, pushed in this order by parseWagonStatus
parseWagonStatus(token) ==
    IF StartsWith(token, <<"-">>) \/ Includes(token, <<"(", "-">>)
          \/ Includes(token, <<"@", "-">>)
    THEN <<"Closed">>
    ELSE (IF Includes(token, <<">">>) THEN <<"Group boarding">> ELSE <<>>)
         \o (IF Includes(token, <<"=">>) THEN <<"Reserved for transit">> ELSE <<>>)
         \o (IF Includes(token, <<"%">>) THEN <<"Open but unserviced">> ELSE <<>>)

\* typeMapping in the order Object.entries yields it: the integer-like keys
\* '1', '2', '12' ascending first, then the other keys in insertion order
TypeMapping ==
    << [code |-> <<"1">>,      type |-> "first-class"],
       [code |-> <<"2">>,      type |-> "second-class"],
       [code |-> <<"1", "2">>, type |-> "first-and-second-class"],
       [code |-> <<"L", "K">>, type |-> "locomotive"],
       [code |-> <<"C", "C">>, type |-> "couchette"],
       [code |-> <<"F", "A">>, type |-> "second-class"],
       [code |-> <<"F", "Z">>, type |-> "second-class"],
       [code |-> <<"W", "L">>, type |-> "sleeper"],
       [code |-> <<"W", "R">>, type |-> "restaurant"],
       [code |-> <<"W", "1">>, type |-> "restaurant-first"],
       [code |-> <<"W", "2">>, type |-> "restaurant-second"],
       [code |-> <<"D">>,      type |-> "baggage"],
       [code |-> <<"K">>,      type |-> "classless"],
       [code |-> <<"X">>,      type |-> "parked"] >>

\* new RegExp(`^${code}(?:[:#,]|$)`).test(token)
TypePrefixMatch(token, code) ==
    /\ StartsWith(token, code)
    /\ \/ Len(token) = Len(code)
       \/ token[Len(code) + 1] \in {":", "#", ","}

determineWagonType(token) ==
    LET exact == {k \in 1..Len(TypeMapping) : TypePrefixMatch(token, TypeMapping[k].code)}
        inner == {k \in 1..Len(TypeMapping) : Includes(token, TypeMapping[k].code)}
        First(S) == CHOOSE k \in S : \A j \in S : k <= j
    IN  IF exact # {} THEN TypeMapping[First(exact)].type
        ELSE IF inner # {} THEN TypeMapping[First(inner)].type
        ELSE "wagon"

getTypeLabel(type) ==
    CASE type = "locomotive" -> "Locomotive"
      [] type = "first-class" -> "1st Class Coach"
      [] type = "second-class" -> "2nd Class Coach"
      [] type = "first-and-second-class" -> "1st & 2nd Class Coach"
      [] type = "couchette" -> "Couchette Compartments"
      [] type = "sleeper" -> "Sleeping compartments"
      [] type = "restaurant" -> "2nd Class Coach"
      [] type = "restaurant-first" -> "1st Class Coach"
      [] type = "restaurant-second" -> "2nd Class Coach"
      [] type = "baggage" -> "Baggage Car"
      [] type = "classless" -> "Classless Coach"
      [] type = "parked" -> "Parked Vehicle"
      [] OTHER -> "Coach"

\* /[,:](\d{1,3})(?:[:#]|$|\)|\])/ matches at index i; the digits are the whole run
OrdnrColonMatchAt(token, i) ==
    LET n == RunLength(token, i + 1, Digits)
    IN  /\ i < Len(token)
        /\ token[i + 1] \in {",", ":"}
        /\ n >= 1 /\ n <= 3
        /\ \/ i + 1 + n = Len(token)
           \/ token[i + 2 + n] \in {":", "#", ")", "]"}

\* /(\d{1,3}):(\d{1,3})/ matches starting at index i
OrdnrPairMatchAt(token, i) ==
    LET n == RunLength(token, i, Digits)
    IN  /\ n >= 1 /\ n <= 3
        /\ i + n < Len(token)
        /\ token[i + n + 1] = ":"
        /\ RunLength(token, i + n + 1, Digits) >= 1

\* null is the empty sequence, a found number n is <<n>>
extractOrdnr(token) ==
    LET colon == {i \in 0..(Len(token) - 1) : OrdnrColonMatchAt(token, i)}
        pair == {i \in 0..(Len(token) - 1) : OrdnrPairMatchAt(token, i)}
        First(S) == CHOOSE k \in S : \A j \in S : k <= j
    IN  IF colon # {}
        THEN LET i == First(colon)
             IN  <<JsSubstring(token, i + 1, i + 1 + RunLength(token, i + 1, Digits))>>
        ELSE IF pair # {}
        THEN LET i == First(pair)
                 c == i + RunLength(token, i, Digits)
             IN  <<JsSubstring(token, c + 1,
                               c + 1 + Min(3, RunLength(token, c + 1, Digits)))>>
        ELSE <<>>

\* the characters that may follow a class digit: (?:[:#,@\)\]]|$)
ClassDelimiters == {":", "#", ",", "@", ")", "]"}

\* code followed by a class delimiter or the end, at index i
ClassMarkAt(token, i, code) ==
    /\ MatchAt(token, i, code)
    /\ \/ i + Len(code) = Len(token)
       \/ token[i + Len(code) + 1] \in ClassDelimiters

\* /^c(...)/ or /^12(...)/ or /[,@]c(...)/ or /\(c(...)/
ClassMarked(token, c) ==
    \/ ClassMarkAt(token, 0, <<c>>)
    \/ ClassMarkAt(token, 0, <<"1", "2">>)
    \/ \E i \in 1..(Len(token) - 1) :
          token[i] \in {",", "@", "("} /\ ClassMarkAt(token, i, <<c>>)

\* /^([12])(?::|\):|,:|@:)(\d+)/: the empty sequence if it does not match
ClassNumberMatch(token) ==
    IF token # <<>> /\ token[1] \in {"1", "2"}
       /\ \/ (MatchAt(token, 1, <<":">>) /\ RunLength(token, 2, Digits) >= 1)
          \/ \E d \in {")", ",", "@"} :
                MatchAt(token, 1, <<d, ":">>) /\ RunLength(token, 3, Digits) >= 1
    THEN <<token[1]>>
    ELSE <<>>

\* one leading '(' and one trailing ')' removed
StripClosing(token) ==
    IF EndsWith(token, <<")">>) THEN JsSubstring(token, 0, Len(token) - 1) ELSE token

StripParentheses(token) ==
    StripClosing(IF StartsWith(token, <<"(">>) THEN JsSubstringFrom(token, 1) ELSE token)

\* determineWagonClasses from "Handle the format N:M" on
ClassesOfCleanToken(cleanToken) ==
    IF ClassNumberMatch(cleanToken) # <<>> THEN ClassNumberMatch(cleanToken)
    ELSE IF Includes(cleanToken, <<"W", "R">>) THEN <<"2">>
    ELSE IF Includes(cleanToken, <<"W", "1">>) THEN <<"1">>
    ELSE IF Includes(cleanToken, <<"W", "2">>) THEN <<"2">>
    ELSE (IF ClassMarked(cleanToken, "1") THEN <<"1">> ELSE <<>>)
         \o (IF ClassMarked(cleanToken, "2") THEN <<"2">> ELSE <<>>)

determineWagonClasses(token) ==
    IF Includes(token, <<"F", "A">>) \/ Includes(token, <<"F", "Z">>)
    THEN <<"2">>
    ELSE ClassesOfCleanToken(
             StripParentheses(JsSubstringFrom(token, RunLength(token, 0, StatusChars))))

(***************************************************************************)
(* Attributes (interface WagonAttribute).                                 *)
(***************************************************************************)
WagonAttribute(code, label, icon) == [code |-> code, label |-> label, icon |-> icon]

\* a code of an offer list as the key it is in the offerMapping tables
OfferKey(offer) ==
    CASE offer = <<"B", "H", "P">> -> "BHP"
      [] offer = <<"B", "Z">> -> "BZ"
      [] offer = <<"F", "Z">> -> "FZ"
      [] offer = <<"K", "W">> -> "KW"
      [] offer = <<"N", "F">> -> "NF"
      [] offer = <<"V", "H">> -> "VH"
      [] offer = <<"V", "R">> -> "VR"
      [] offer = <<"W", "L">> -> "WL"
      [] offer = <<"C", "C">> -> "CC"
      [] OTHER -> ""

\* the label and icon columns shared by both offerMapping tables
OfferLabel(key) ==
    CASE key = "BHP" -> "Wheelchair Spaces"
      [] key = "BZ" -> "Business Zone"
      [] key = "FZ" -> "Family Zone"
      [] key = "KW" -> "Stroller Platform"
      [] key = "NF" -> "Low Floor Access"
      [] key = "VH" -> "Bike Hooks"
      [] key = "VR" -> "Bike Hooks Reservation Required"
      [] key = "WL" -> "Sleeping compartments"
      [] OTHER -> "Couchette"

OfferIcon(key) ==
    CASE key = "BHP" -> "wheelchair"
      [] key = "BZ" -> "business"
      [] key = "FZ" -> "family"
      [] key = "KW" -> "stroller"
      [] key = "NF" -> "accessible"
      [] key = "VH" -> "bicycle"
      [] key = "VR" -> "bicycle-reserved"
      [] key = "WL" -> "sleep"
      [] OTHER -> "couchette"

\* null is the empty sequence
getAttributeObject(code) ==
    IF OfferKey(code) = "" THEN <<>>
    ELSE <<WagonAttribute(OfferKey(code),
                          IF OfferKey(code) = "CC" THEN "Couchette Compartments"
                          ELSE OfferLabel(OfferKey(code)),
                          OfferIcon(OfferKey(code)))>>

HasCode(attributes, code) == \E k \in 1..Len(attributes) : attributes[k].code = code

\* the loop "for (const offer of offers)" of parseWagonAttributes
RECURSIVE AddOffers(_, _)
AddOffers(attributes, offers) ==
    IF offers = <<>> THEN attributes
    ELSE LET key == OfferKey(offers[1])
         IN  AddOffers(IF key # "" /\ ~HasCode(attributes, key)
                       THEN Append(attributes,
                                   WagonAttribute(key, OfferLabel(key), OfferIcon(key)))
                       ELSE attributes,
                       Tail(offers))

\* /#([A-Z;]+)/: the list after the leftmost '#' that an offer character follows
OfferMatch(token) ==
    LET cls == UpperCase \cup {";"}
        hits == {i \in 0..(Len(token) - 1) :
                    token[i + 1] = "#" /\ RunLength(token, i + 1, cls) >= 1}
    IN  IF hits = {} THEN <<>>
        ELSE LET i == CHOOSE k \in hits : \A j \in hits : k <= j
             IN  <<JsSubstring(token, i + 1, i + 1 + RunLength(token, i + 1, cls))>>

parseWagonAttributes(token) ==
    LET implicit ==
            (IF Includes(token, <<"F", "A">>) \/ Includes(token, <<"F", "Z">>)
             THEN <<WagonAttribute("FZ", "Family Zone", "family")>> ELSE <<>>)
         \o (IF Includes(token, <<"W", "L">>)
             THEN <<WagonAttribute("WL", "Sleeping compartments", "sleep")>> ELSE <<>>)
         \o (IF Includes(token, <<"C", "C">>)
             THEN <<WagonAttribute("CC", "Couchette Compartments", "couchette")>>
             ELSE <<>>)
         \o (IF (Includes(token, <<"W", "R">>) \/ Includes(token, <<"W", "1">>)
                    \/ Includes(token, <<"W", "2">>))
                /\ ~Includes(token, <<"%">>)
             THEN <<WagonAttribute("WR", "Restaurant", "restaurant")>> ELSE <<>>)
    IN  IF OfferMatch(token) = <<>> THEN implicit
        ELSE AddOffers(implicit, SplitOn(OfferMatch(token)[1], {";"}, <<>>))

(***************************************************************************)
(* parseVehicleToken (interface TrainWagon).                              *)
(***************************************************************************)
\* the value of an optional field that was never assigned
Undefined == "undefined"

\* the token with its leading status characters removed
StripStatus(token) ==
    IF StartsWith(token, <<"-">>) THEN JsSubstringFrom(token, 1)
    ELSE IF token # <<>> /\ token[1] \in {">", "=", "%"}
    THEN JsSubstringFrom(token, RunLength(token, 0, StatusChars))
    ELSE token

\* ordnr || ''
NumberOf(ordnr) == IF ordnr = <<>> THEN <<>> ELSE ordnr[1]

\* the wagon returned by parseVehicleToken, from its local constants
TrainWagon(token, sector, position, cleanTokenWithParentheses, cleanToken, wagonType) ==
    [position |-> position,
     number |-> NumberOf(extractOrdnr(cleanToken)),
     type |-> wagonType,
     typeLabel |-> getTypeLabel(wagonType),
     classes |-> determineWagonClasses(cleanTokenWithParentheses),
     attributes |-> parseWagonAttributes(cleanToken),
     noAccessToPrevious |-> StartsWith(cleanTokenWithParentheses, <<"(">>)
                               \/ StartsWith(token, <<"(">>),
     noAccessToNext |-> EndsWith(cleanTokenWithParentheses, <<")">>)
                           \/ EndsWith(token, <<")">>),
     noAccessMessage |-> Undefined,
     sector |-> sector,
     statusCodes |-> parseWagonStatus(token)]

\* parseVehicleToken from "Keep a copy of the cleaned token" on
DecodeCleanToken(token, sector, position, cleanTokenWithParentheses, cleanToken) ==
    TrainWagon(token, sector, position, cleanTokenWithParentheses, cleanToken,
               determineWagonType(cleanToken))

DecodeToken(token, sector, position, cleanTokenWithParentheses) ==
    DecodeCleanToken(token, sector, position, cleanTokenWithParentheses,
                     StripParentheses(cleanTokenWithParentheses))

\* null is the empty sequence, a wagon w is <<w>>
parseVehicleToken(token, sector, position) ==
    IF Trim(token) = <<>> THEN <<>>
    ELSE <<DecodeToken(token, sector, position, StripStatus(token))>>

(***************************************************************************)
(* parseVehicleGroup.                                                     *)
(***************************************************************************)
\* length of the longest run of characters of class cls that ends the string
RECURSIVE RunLengthBack(_, _)
RunLengthBack(s, cls) ==
    IF s # <<>> /\ s[Len(s)] \in cls
    THEN 1 + RunLengthBack(SubSeq(s, 1, Len(s) - 1), cls) ELSE 0

\* capture 1 of /(?:\)|\])(?:[:#]\d+)?(?:#([A-Z;]+))?$/, the empty sequence when
\* the expression does not match or the capture is undefined
GroupAttributesMatch(groupContent) ==
    LET k == RunLengthBack(groupContent, UpperCase \cup {";"})
        n == Len(groupContent)
        rest == SubSeq(groupContent, 1, n - k - 1)
        d == RunLengthBack(rest, Digits)
        r == Len(rest)
    IN  IF /\ k >= 1
           /\ n - k >= 1
           /\ groupContent[n - k] = "#"
           /\ \/ (d = 0 /\ r >= 1 /\ rest[r] \in {")", "]"})
              \/ (d >= 1 /\ r - d >= 2 /\ rest[r - d] \in {":", "#"}
                    /\ rest[r - d - 1] \in {")", "]"})
        THEN <<SubSeq(groupContent, n - k + 1, n)>>
        ELSE <<>>

\* the loop "for (const offer of offerList)" of parseVehicleGroup
RECURSIVE GroupAttributes(_)
GroupAttributes(offerList) ==
    IF offerList = <<>> THEN <<>>
    ELSE getAttributeObject(offerList[1]) \o GroupAttributes(Tail(offerList))

\* match[0] of /\((.*?)\)/: from the leftmost '(' that a ')' follows to the
\* first ')' after it; the empty sequence when there is none
GroupParenthesisMatch(groupContent) ==
    LET opens == {i \in 0..(Len(groupContent) - 1) :
                     groupContent[i + 1] = "(" /\ JsIndexOf(groupContent, <<")">>, i) # -1}
    IN  IF opens = {} THEN <<>>
        ELSE LET i == CHOOSE k \in opens : \A j \in opens : k <= j
             IN  <<JsSubstring(groupContent, i, JsIndexOf(groupContent, <<")">>, i) + 1)>>

\* the loop "for (const attr of groupAttributes)"
RECURSIVE AddGroupAttributes(_, _)
AddGroupAttributes(attributes, groupAttributes) ==
    IF groupAttributes = <<>> THEN attributes
    ELSE AddGroupAttributes(IF HasCode(attributes, groupAttributes[1].code)
                            THEN attributes
                            ELSE Append(attributes, groupAttributes[1]),
                            Tail(groupAttributes))

\* the group rule for the wagon parsed from the token at index i
GroupWagon(parsedWagon, tokens, i, groupAttributes, hasGroupParenthesis) ==
    LET isLastRealWagon == \A k \in (i + 2)..Len(tokens) : tokens[k].type # "VEHICLE"
        noAccessAcrossGroups == hasGroupParenthesis # <<>>
        first == /\ i = 0
                 /\ noAccessAcrossGroups
                 /\ StartsWith(hasGroupParenthesis[1], <<"(">>)
        last == /\ i = Len(tokens) - 1
                /\ noAccessAcrossGroups
                /\ EndsWith(hasGroupParenthesis[1], <<")">>)
    IN  [parsedWagon EXCEPT
            !.attributes = IF isLastRealWagon /\ groupAttributes # <<>>
                           THEN AddGroupAttributes(@, groupAttributes) ELSE @,
            !.noAccessToPrevious = IF first THEN TRUE ELSE @,
            !.noAccessToNext = IF last THEN TRUE ELSE @,
            !.noAccessMessage = IF first \/ last
                                THEN "No passage to the neighbouring coach possible"
                                ELSE @]

\* "if (parsedWagon) { ... wagons.push(parsedWagon) }": what is pushed
GroupWagons(parsed, tokens, i, groupAttributes, hasGroupParenthesis) ==
    IF parsed = <<>> THEN <<>>
    ELSE <<GroupWagon(parsed[1], tokens, i, groupAttributes, hasGroupParenthesis)>>

\* capture 1 of /@([A-Z])/ as a string, the empty sequence when there is no match
SectorMatch(str) ==
    LET hits == {i \in 0..(Len(str) - 2) : str[i + 1] = "@" /\ str[i + 2] \in UpperCase}
    IN  IF hits = {} THEN <<>>
        ELSE LET i == CHOOSE k \in hits : \A j \in hits : k <= j
             IN  << <<str[i + 2]>> >>

\* "if (sectorMatch) currentSector = sectorMatch[1]"
SectorOr(sectorMatch, currentSector) ==
    IF sectorMatch # <<>> THEN sectorMatch[1] ELSE currentSector

\* the loop "for (let i = 0; i < tokens.length; i++)" from index i on
RECURSIVE GroupLoop(_, _, _, _, _, _, _)
GroupLoop(tokens, i, currentSector, position, wagons, groupAttributes, hasGroupParenthesis) ==
    IF i >= Len(tokens) THEN wagons
    ELSE
      LET token == tokens[i + 1]
      IN  IF token.type = "SECTOR"
          THEN GroupLoop(tokens, i + 1,
                         SectorOr(SectorMatch(token.value), currentSector),
                         position, wagons, groupAttributes, hasGroupParenthesis)
          ELSE IF token.type \notin {"VEHICLE", "FICTITIOUS_WAGON"}
          THEN GroupLoop(tokens, i + 1, currentSector, position, wagons,
                         groupAttributes, hasGroupParenthesis)
          ELSE GroupLoop(tokens, i + 1, currentSector, position + 1,
                         wagons \o GroupWagons(
                             parseVehicleToken(token.value, currentSector, position),
                             tokens, i, groupAttributes, hasGroupParenthesis),
                         groupAttributes, hasGroupParenthesis)

\* the group attributes of a groupAttributesMatch
GroupAttributesOf(match) ==
    IF match = <<>> THEN <<>> ELSE GroupAttributes(SplitOn(match[1], {";"}, <<>>))

parseVehicleGroup(groupContent, sector, startPosition) ==
    GroupLoop(tokenizeFormationString(groupContent), 0, sector, startPosition, <<>>,
              GroupAttributesOf(GroupAttributesMatch(groupContent)),
              GroupParenthesisMatch(groupContent))

(***************************************************************************)
(* The sector map (Map<string, TrainWagon[]>): entries in insertion order. *)
(***************************************************************************)
MapHas(map, key) == \E k \in 1..Len(map) : map[k].sector = key

\* sectorMap.get(key) || []
MapGetOrEmpty(map, key) ==
    IF MapHas(map, key)
    THEN map[CHOOSE k \in 1..Len(map) : map[k].sector = key].wagons
    ELSE <<>>

\* a map that opens a new entry on every set
MapSetAppending(map, key, wagons) ==
    Append(map, [sector |-> key, wagons |-> wagons])

\* Map.prototype.set: a present key keeps its place, a new key goes last
MapSet(map, key, wagons) ==
    IF MapHas(map, key)
    THEN [k \in 1..Len(map) |->
             IF map[k].sector = key THEN [sector |-> key, wagons |-> wagons] ELSE map[k]]
    ELSE Append(map, [sector |-> key, wagons |-> wagons])

(***************************************************************************)
(* processSegment.                                                        *)
(***************************************************************************)
\* a removal that leaves the segment as it is
RemoveNothing(segment, startIdx) == segment

\* one iteration of the while loop over bracket groups; defined when
\* extractBracketContent(segment, '[', ']') is not null
\* "Remove the processed bracket group from the segment"
RemoveGroup(segment, startIdx) ==
    JsSubstring(segment, 0, startIdx)
        \o JsSubstringFrom(segment, JsIndexOf(segment, <<"]">>, startIdx) + 1)

\* the loop body for the wagons parsed from the bracket group
AddGroup(segment, currentSector, position, sectorMap, wagons) ==
    [segment |-> RemoveGroup(segment, JsIndexOf(segment, <<"[">>, 0)),
     position |-> IF Len(wagons) > 0 THEN position + Len(wagons) ELSE position,
     sectorMap |-> IF Len(wagons) > 0
                   THEN MapSet(sectorMap, currentSector,
                               MapGetOrEmpty(sectorMap, currentSector) \o wagons)
                   ELSE sectorMap]

BracketIteration(segment, currentSector, position, sectorMap) ==
    AddGroup(segment, currentSector, position, sectorMap,
             parseVehicleGroup(extractBracketContent(segment, "[", "]")[1],
                               currentSector, position))

\* an individual wagon that is filed under the default sector
AddWagonToDefault(wagon, currentSector, position, sectorMap) ==
    IF wagon = <<>> THEN [position |-> position, sectorMap |-> sectorMap]
    ELSE [position |-> position + 1,
          sectorMap |-> MapSet(sectorMap, <<>>,
                               Append(MapGetOrEmpty(sectorMap, <<>>), wagon[1]))]

\* "if (wagon) { ... sectorWagons.push(wagon) ... position++ }"
AddWagon(wagon, currentSector, position, sectorMap) ==
    IF wagon = <<>> THEN [position |-> position, sectorMap |-> sectorMap]
    ELSE [position |-> position + 1,
          sectorMap |-> MapSet(sectorMap, currentSector,
                               Append(MapGetOrEmpty(sectorMap, currentSector), wagon[1]))]

\* the callback of tokens.forEach for one token: position and map after it
IndividualToken(trimmedToken, currentSector, position, sectorMap) ==
    IF trimmedToken = <<"F">>
    THEN [position |-> position + 1, sectorMap |-> sectorMap]
    ELSE IF isPotentialWagonToken(trimmedToken)
    THEN AddWagon(parseVehicleToken(trimmedToken, currentSector, position),
                  currentSector, position, sectorMap)
    ELSE [position |-> position, sectorMap |-> sectorMap]

RECURSIVE IndividualTokensLoop(_, _, _)
IndividualTokensLoop(tokens, currentSector, state) ==
    IF tokens = <<>> THEN state
    ELSE IndividualTokensLoop(Tail(tokens), currentSector,
             IndividualToken(Trim(tokens[1]), currentSector, state.position,
                             state.sectorMap))

NotBlank(t) == Trim(t) # <<>>

\* the part of processSegment after the while loop
IndividualTokens(segment, currentSector, position, sectorMap) ==
    IndividualTokensLoop(SelectSeq(SplitOn(segment, {",", "\\"}, <<>>), NotBlank),
                         currentSector, [position |-> position, sectorMap |-> sectorMap])

\* the while loop of processSegment and what follows it, from the loop state
RECURSIVE ProcessFrom(_, _)
ProcessFrom(it, currentSector) ==
    IF extractBracketContent(it.segment, "[", "]") # <<>>
    THEN ProcessFrom(BracketIteration(it.segment, currentSector, it.position,
                                      it.sectorMap),
                     currentSector)
    ELSE IndividualTokens(it.segment, currentSector, it.position, it.sectorMap)

processSegment(segment, currentSector, position, sectorMap) ==
    ProcessFrom([segment |-> segment, position |-> position, sectorMap |-> sectorMap],
                currentSector)

(***************************************************************************)
(* finalizeTrainSections.                                                 *)
(***************************************************************************)
\* "Set noAccessMessages for better UX": the later assignment wins
SetNoAccessMessage(wagon) ==
    [wagon EXCEPT !.noAccessMessage =
        IF wagon.noAccessToNext THEN "No passage to next coach"
        ELSE IF wagon.noAccessToPrevious THEN "No passage to previous coach"
        ELSE @]

\* all wagons of the sections in one array
RECURSIVE Flatten(_)
Flatten(parsed) ==
    IF parsed = <<>> THEN <<>> ELSE parsed[1].wagons \o Flatten(Tail(parsed))

\* a renumbering that leaves the position of the segment loop in place
RenumberKeepingPosition(wagon, index) ==
    [wagon EXCEPT !.statusCodes = IF wagon.type = "locomotive" THEN <<>> ELSE @]

\* a renumbering that leaves the status codes of a locomotive in place
RenumberKeepingStatus(wagon, index) == [wagon EXCEPT !.position = index]

\* the body of allWagons.forEach for the wagon at position index (from 0),
\* before the no-passage check: position and locomotive status
Renumber(wagon, index) ==
    [wagon EXCEPT !.position = index,
                  !.statusCodes = IF wagon.type = "locomotive" THEN <<>> ELSE @]

\* a no-passage check that marks the previous wagon only
StitchPairPreviousOnly(previousWagon, wagon) ==
    IF (previousWagon.noAccessToNext \/ wagon.noAccessToPrevious)
       /\ wagon.type # "locomotive" /\ previousWagon.type # "locomotive"
    THEN << [previousWagon EXCEPT !.noAccessToNext = TRUE], wagon >>
    ELSE << previousWagon, wagon >>

\* a no-passage check that clears the flags of a locomotive and leaves its
\* message
StitchPairKeepingMessage(previousWagon, wagon) ==
    LET isCurrentLocomotive == wagon.type = "locomotive"
        isPreviousLocomotive == previousWagon.type = "locomotive"
    IN  IF (previousWagon.noAccessToNext \/ wagon.noAccessToPrevious)
           /\ ~isCurrentLocomotive /\ ~isPreviousLocomotive
        THEN << [previousWagon EXCEPT
                    !.noAccessToNext = TRUE,
                    !.noAccessMessage = IF @ = Undefined
                                        THEN "No passage to next coach" ELSE @],
                [wagon EXCEPT
                    !.noAccessToPrevious = TRUE,
                    !.noAccessMessage = IF @ = Undefined
                                        THEN "No passage to previous coach" ELSE @] >>
        ELSE IF isCurrentLocomotive \/ isPreviousLocomotive
        THEN << IF isPreviousLocomotive
                THEN [previousWagon EXCEPT !.noAccessToNext = FALSE]
                ELSE previousWagon,
                IF isCurrentLocomotive
                THEN [wagon EXCEPT !.noAccessToPrevious = FALSE]
                ELSE wagon >>
        ELSE <<previousWagon, wagon>>

\* the no-passage check between previousWagon and wagon: the pair after it
StitchPair(previousWagon, wagon) ==
    LET isCurrentLocomotive == wagon.type = "locomotive"
        isPreviousLocomotive == previousWagon.type = "locomotive"
    IN  IF (previousWagon.noAccessToNext \/ wagon.noAccessToPrevious)
           /\ ~isCurrentLocomotive /\ ~isPreviousLocomotive
        THEN << [previousWagon EXCEPT
                    !.noAccessToNext = TRUE,
                    !.noAccessMessage = IF @ = Undefined
                                        THEN "No passage to next coach" ELSE @],
                [wagon EXCEPT
                    !.noAccessToPrevious = TRUE,
                    !.noAccessMessage = IF @ = Undefined
                                        THEN "No passage to previous coach" ELSE @] >>
        ELSE IF isCurrentLocomotive \/ isPreviousLocomotive
        THEN << IF isPreviousLocomotive
                THEN [previousWagon EXCEPT !.noAccessToNext = FALSE,
                                           !.noAccessMessage = Undefined]
                ELSE previousWagon,
                IF isCurrentLocomotive
                THEN [wagon EXCEPT !.noAccessToPrevious = FALSE,
                                   !.noAccessMessage = Undefined]
                ELSE wagon >>
        ELSE <<previousWagon, wagon>>

\* allWagons with the wagons at sequence indices k - 1 and k replaced by pair
WithPair(allWagons, k, pair) == [allWagons EXCEPT ![k - 1] = pair[1], ![k] = pair[2]]

\* allWagons.forEach from the wagon at sequence index k on
RECURSIVE StitchLoop(_, _)
StitchLoop(allWagons, k) ==
    IF k > Len(allWagons) THEN allWagons
    ELSE IF k = 1
    THEN StitchLoop([allWagons EXCEPT ![1] = Renumber(allWagons[1], 0)], 2)
    ELSE StitchLoop(WithPair(allWagons, k,
                             StitchPair(allWagons[k - 1], Renumber(allWagons[k], k - 1))),
                    k + 1)

\* the sections with their wagons replaced, in order, by those of allWagons
RECURSIVE Regroup(_, _)
Regroup(parsed, allWagons) ==
    IF parsed = <<>> THEN <<>>
    ELSE LET n == Len(parsed[1].wagons)
         IN  <<[sector |-> parsed[1].sector, wagons |-> SubSeq(allWagons, 1, n)]>>
             \o Regroup(Tail(parsed), SubSeq(allWagons, n + 1, Len(allWagons)))

HasWagons(section) == Len(section.wagons) > 0

\* filteredSections.forEach: the no-access messages of every section
SetMessages(filteredSections) ==
    [k \in 1..Len(filteredSections) |->
        [sector |-> filteredSections[k].sector,
         wagons |-> [j \in 1..Len(filteredSections[k].wagons) |->
                        SetNoAccessMessage(filteredSections[k].wagons[j])]]]

\* "Handle cross-section no-passage": the wagons are shared with the sections
Stitch(filteredSections) ==
    Regroup(filteredSections, StitchLoop(Flatten(filteredSections), 1))

finalizeTrainSections(parsed) == Stitch(SetMessages(SelectSeq(parsed, HasWagons)))

(***************************************************************************)
(* parseFormationString.                                                  *)
(***************************************************************************)
\* formationString.includes('@') || /\\@[A-Z]/.test(formationString)
HasSectors(formationString) ==
    \/ Includes(formationString, <<"@">>)
    \/ \E c \in UpperCase : Includes(formationString, <<"\\", "@", c>>)

\* formationString.split(/(?=@[A-Z])/): cut before every sector marker but one
\* at index 0
RECURSIVE SplitSectors(_, _)
SplitSectors(s, cur) ==
    IF s = <<>> THEN <<cur>>
    ELSE IF cur # <<>> /\ Len(s) >= 2 /\ s[1] = "@" /\ s[2] \in UpperCase
    THEN <<cur>> \o SplitSectors(Tail(s), <<s[1]>>)
    ELSE SplitSectors(Tail(s), Append(cur, s[1]))

\* the segments without the whole string as the segment of a string that has
\* no bracket group
SectorSegmentsBracketOnly(formationString) ==
    IF HasSectors(formationString) THEN SplitSectors(formationString, <<>>)
    ELSE LET bracketContent == extractBracketContent(formationString, "[", "]")
         IN  IF bracketContent = <<>> THEN << <<>> >> ELSE <<bracketContent[1]>>

\* the segments handed to the segment loop: the sector segments, or the one
\* segment of a string without sectors
SectorSegments(formationString) ==
    IF HasSectors(formationString) THEN SplitSectors(formationString, <<>>)
    ELSE LET bracketContent == extractBracketContent(formationString, "[", "]")
         IN  IF bracketContent = <<>> \/ bracketContent[1] = <<>>
             THEN <<formationString>>
             ELSE <<bracketContent[1]>>

\* a segment head that strips the marker but keeps the sector of before
EnterWithMatchKeepingSector(segment, currentSector, sectorMap, sectorMatch) ==
    IF sectorMatch = <<>>
    THEN [segment |-> segment, currentSector |-> currentSector, sectorMap |-> sectorMap]
    ELSE [segment |-> JsSubstringFrom(segment,
                          JsIndexOf(segment, <<"@">> \o sectorMatch[1], 0) + 2),
          currentSector |-> currentSector,
          sectorMap |-> sectorMap]

\* the head of the segment loop body for a segment with a sector marker: the
\* sector, the map with the sector initialised and the segment without marker
EnterWithMatch(segment, currentSector, sectorMap, sectorMatch) ==
    IF sectorMatch = <<>>
    THEN [segment |-> segment, currentSector |-> currentSector, sectorMap |-> sectorMap]
    ELSE [segment |-> JsSubstringFrom(segment,
                          JsIndexOf(segment, <<"@">> \o sectorMatch[1], 0) + 2),
          currentSector |-> sectorMatch[1],
          sectorMap |-> IF MapHas(sectorMap, sectorMatch[1]) THEN sectorMap
                        ELSE MapSet(sectorMap, sectorMatch[1], <<>>)]

EnterSegment(segment, currentSector, sectorMap) ==
    EnterWithMatch(segment, currentSector, sectorMap, SectorMatch(segment))

\* the segment loop body up to the call of processSegment; skip is "continue"
SegmentEntry(segment, hasSectorMarkers, currentSector, sectorMap) ==
    IF hasSectorMarkers /\ Trim(segment) = <<>>
    THEN [skip |-> TRUE, segment |-> segment, currentSector |-> currentSector,
          sectorMap |-> sectorMap]
    ELSE IF hasSectorMarkers
    THEN [skip |-> FALSE] @@ EnterSegment(segment, currentSector, sectorMap)
    ELSE [skip |-> FALSE, segment |-> segment, currentSector |-> currentSector,
          sectorMap |-> sectorMap]

\* "Convert the sector map to train sections" and finalize
SectionsOf(sectorMap) == finalizeTrainSections(SelectSeq(sectorMap, HasWagons))

\* the loop over the segments: SegmentLoop takes the next segment,
\* SegmentBody runs the loop body for it, SegmentDone continues after it
RECURSIVE SegmentLoop(_, _, _, _, _)
RECURSIVE SegmentBody(_, _, _, _)
RECURSIVE SegmentDone(_, _, _, _)
SegmentLoop(segments, hasSectorMarkers, currentSector, position, sectorMap) ==
    IF segments = <<>> THEN sectorMap
    ELSE SegmentBody(Tail(segments), hasSectorMarkers, position,
                     SegmentEntry(segments[1], hasSectorMarkers, currentSector, sectorMap))

SegmentBody(rest, hasSectorMarkers, position, e) ==
    IF e.skip
    THEN SegmentLoop(rest, hasSectorMarkers, e.currentSector, position, e.sectorMap)
    ELSE SegmentDone(rest, hasSectorMarkers, e.currentSector,
                     processSegment(e.segment, e.currentSector, position, e.sectorMap))

SegmentDone(rest, hasSectorMarkers, currentSector, r) ==
    SegmentLoop(rest, hasSectorMarkers, currentSector, r.position, r.sectorMap)

parseFormationString(str) ==
    IF Trim(str) = <<>> THEN <<>>
    ELSE SectionsOf(SegmentLoop(SectorSegments(str), HasSectors(str), <<>>, 0, <<>>))

(***************************************************************************)
(* determineTravelDirection.                                              *)
(***************************************************************************)
\* sections.map(section => section.sector).filter(sector => sector?.trim())
VisualSectors(parsed) ==
    SelectSeq([k \in 1..Len(parsed) |-> parsed[k].sector], NotBlank)

\* sectors.split(',').map(s => s.trim()).filter(s => s)
NotEmpty(t) == t # <<>>

TrimAll(parts) == [k \in 1..Len(parts) |-> Trim(parts[k])]

VehicleSectors(vehicleSectorField) ==
    SelectSeq(TrimAll(SplitOn(vehicleSectorField, {","}, <<>>)), NotEmpty)

SeqIncludes(q, x) == \E k \in 1..Len(q) : q[k] = x

\* a direction that looks at the last visual sector before the first
DirectionOfLastFirst(visualSectors, vehicleSectors) ==
    IF visualSectors = <<>> THEN "unknown"
    ELSE IF vehicleSectors = <<>> THEN "unknown"
    ELSE IF \E k \in 1..Len(vehicleSectors) :
                vehicleSectors[k] = visualSectors[Len(visualSectors)] THEN "right"
    ELSE IF \E k \in 1..Len(vehicleSectors) : vehicleSectors[k] = visualSectors[1]
    THEN "left"
    ELSE "unknown"

\* sectors is firstVehicle.sectors, the empty string also standing for a
\* missing field
\* determineTravelDirection from "if (!visualSectors.length)" on
DirectionOf(visualSectors, vehicleSectors) ==
    IF visualSectors = <<>> THEN "unknown"
    ELSE IF vehicleSectors = <<>> THEN "unknown"
    ELSE IF SeqIncludes(vehicleSectors, visualSectors[1]) THEN "left"
    ELSE IF SeqIncludes(vehicleSectors, visualSectors[Len(visualSectors)]) THEN "right"
    ELSE "unknown"

\* vehicleSectorField is firstVehicle.sectors, the empty string also standing
\* for a missing field
determineTravelDirection(str, vehicleSectorField) ==
    IF Trim(str) = <<>> \/ vehicleSectorField = <<>> THEN "unknown"
    ELSE DirectionOf(VisualSectors(parseFormationString(str)),
                     VehicleSectors(vehicleSectorField))

(***************************************************************************)
(* The occupancy merge (OccupancyService.getOccupancyVisualization and     *)
(* FormationService.processFormationData).                                 *)
(***************************************************************************)
\* null of a string-valued field
Null == "null"

\* index (from 1) of the first TRUE of passes, the results of the test on the
\* elements of an array, 0 if none:
\* Array.prototype.find and findIndex
FindIndex(passes) ==
    IF \E k \in 1..Len(passes) : passes[k]
    THEN CHOOSE k \in 1..Len(passes) : passes[k] /\ \A j \in 1..(k - 1) : ~passes[j]
    ELSE 0

\* the visualization table of the occupancy levels; a level outside the table
\* has no entry
OccupancyLevels == {"LOW", "MEDIUM", "HIGH"}

OCCUPANCY_VISUALIZATION(occupancyLevel) ==
    IF occupancyLevel \in OccupancyLevels
    THEN << [icon |-> occupancyLevel, label |-> occupancyLevel] >>
    ELSE <<>>

\* "const occupancy = section.expectedDepartureOccupancies.find(...)" and the
\* lookup of its level
VisualizationOfSection(section, fareClass) ==
    IF FindIndex([e \in 1..Len(section.expectedDepartureOccupancies) |->
           section.expectedDepartureOccupancies[e].fareClass = fareClass]) = 0
    THEN <<>>
    ELSE OCCUPANCY_VISUALIZATION(
             section.expectedDepartureOccupancies[
                 FindIndex([e \in 1..Len(section.expectedDepartureOccupancies) |->
                     section.expectedDepartureOccupancies[e].fareClass = fareClass])].occupancyLevel)

\* trainOccupancy is <<>> for null, else <<dataset>>; the result is <<>> for
\* null, else <<entry of the table>>
getOccupancyVisualization(trainOccupancy, fareClass, fromStation, toStation) ==
    IF trainOccupancy = <<>> THEN <<>>
    ELSE IF FindIndex([e \in 1..Len(trainOccupancy[1].sections) |->
                trainOccupancy[1].sections[e].departureStationName = fromStation /\ trainOccupancy[1].sections[e].destinationStationName = toStation]) = 0
    THEN <<>>
    ELSE VisualizationOfSection(
             trainOccupancy[1].sections[
                 FindIndex([e \in 1..Len(trainOccupancy[1].sections) |->
                     trainOccupancy[1].sections[e].departureStationName = fromStation /\ trainOccupancy[1].sections[e].destinationStationName = toStation])],
             fareClass)

\* "wagon.firstClassOccupancy = { icon, label }" if the lookup found an entry
SetFirstClassOccupancy(wagon, visualization) ==
    IF visualization = <<>> THEN wagon
    ELSE wagon @@ [firstClassOccupancy |->
                      [icon |-> visualization[1].icon, label |-> visualization[1].label]]

SetSecondClassOccupancy(wagon, visualization) ==
    IF visualization = <<>> THEN wagon
    ELSE wagon @@ [secondClassOccupancy |->
                      [icon |-> visualization[1].icon, label |-> visualization[1].label]]

\* a merge that looks up both classes for every wagon
MergeWagonAnyClass(wagon, occupancyData, stopName, destinationStationName) ==
    SetSecondClassOccupancy(
        SetFirstClassOccupancy(
            wagon,
            getOccupancyVisualization(occupancyData, "FIRST", stopName,
                                      destinationStationName)),
        getOccupancyVisualization(occupancyData, "SECOND", stopName,
                                  destinationStationName))

\* the body of section.wagons.forEach of the merge
MergeWagon(wagon, occupancyData, stopName, destinationStationName) ==
    SetSecondClassOccupancy(
        SetFirstClassOccupancy(
            wagon,
            IF SeqIncludes(wagon.classes, "1")
            THEN getOccupancyVisualization(occupancyData, "FIRST", stopName,
                                           destinationStationName)
            ELSE <<>>),
        IF SeqIncludes(wagon.classes, "2")
        THEN getOccupancyVisualization(occupancyData, "SECOND", stopName,
                                       destinationStationName)
        ELSE <<>>)

MergeSections(parsed, occupancyData, stopName, destinationStationName) ==
    [k \in 1..Len(parsed) |->
        [sector |-> parsed[k].sector,
         wagons |-> [j \in 1..Len(parsed[k].wagons) |->
                        MergeWagon(parsed[k].wagons[j], occupancyData, stopName,
                                   destinationStationName)]]]

\* "Add occupancy data if available": occupancyData is <<>> for null
MergeOccupancy(parsed, occupancyData, stopName) ==
    IF occupancyData = <<>> THEN parsed
    ELSE IF FindIndex([e \in 1..Len(occupancyData[1].sections) |->
                occupancyData[1].sections[e].departureStationName = stopName]) = 0
    THEN parsed
    ELSE MergeSections(parsed, occupancyData, stopName,
             occupancyData[1].sections[
                 FindIndex([e \in 1..Len(occupancyData[1].sections) |->
                     occupancyData[1].sections[e].departureStationName = stopName])
             ].destinationStationName)

\* a response is a record of formationsAtScheduledStops, a sequence of
\* [name, uic, formationShortString], of formationVehicleAtScheduledStops, the
\* sequence of [uic, sectors] of formations[0].formationVehicles[0] (empty
\* without such a vehicle), and of trainNumber
\* ".filter(formationStop => formationStop.formationShort.formationShortString?.trim())"
HasFormation(formationStop) == Trim(formationStop.formationShortString) # <<>>

\* "let travelDirection" of a stop
StopTravelDirection(response, formationStop) ==
    IF FindIndex([e \in 1..Len(response.formationVehicleAtScheduledStops) |->
           response.formationVehicleAtScheduledStops[e].uic = formationStop.uic]) = 0
    THEN "unknown"
    ELSE determineTravelDirection(
             formationStop.formationShortString,
             response.formationVehicleAtScheduledStops[
                 FindIndex([e \in 1..Len(response.formationVehicleAtScheduledStops) |->
                     response.formationVehicleAtScheduledStops[e].uic = formationStop.uic])].sectors)

\* the stop of the visualization (arrival and departure time and track, copied
\* from the response, are left out)
VisualizationStop(response, formationStop) ==
    [name |-> formationStop.name,
     uic |-> formationStop.uic,
     hasSectors |-> HasSectors(formationStop.formationShortString),
     travelDirection |-> StopTravelDirection(response, formationStop)]

StopsOf(response, validStops) ==
    [k \in 1..Len(validStops) |-> VisualizationStop(response, validStops[k])]

\* "const stops"
Stops(response) ==
    StopsOf(response, SelectSeq(response.formationsAtScheduledStops, HasFormation))

\* "let firstValidStopIndex" after its adjustments, from 0
FirstValidStopIndexOf(stops, firstValidStopIndex) ==
    IF firstValidStopIndex >= Len(stops) THEN 0 ELSE firstValidStopIndex

FirstValidStopIndex(stops, stopIndex) ==
    FirstValidStopIndexOf(
        stops,
        IF stopIndex = 0 /\ FindIndex([e \in 1..Len(stops) |->
                                stops[e].name # Null]) > 0
        THEN FindIndex([e \in 1..Len(stops) |->
                 stops[e].name # Null]) - 1
        ELSE stopIndex)

\* "const trainVisualization"
TrainVisualizationOf(response, occupancyData, stops, firstValidStopIndex, currentFormationStop) ==
    [trainNumber |-> response.trainNumber,
     currentStop |-> currentFormationStop.name,
     stops |-> stops,
     sections |-> MergeOccupancy(
                      parseFormationString(currentFormationStop.formationShortString),
                      occupancyData, stops[firstValidStopIndex + 1].name)]

\* processFormationData from "Set current stop index" on; the result is what
\* it publishes: formation is <<>> for null, stopIndex is <<>> when
\* currentStopIndexSubject is left alone
ProcessCurrentStop(response, occupancyData, stops, firstValidStopIndex) ==
    [stopIndex |-> <<firstValidStopIndex>>,
     formation |->
        IF FindIndex([e \in 1..Len(response.formationsAtScheduledStops) |->
               response.formationsAtScheduledStops[e].uic = stops[firstValidStopIndex + 1].uic]) = 0
        THEN <<>>
        ELSE << TrainVisualizationOf(
                    response, occupancyData, stops, firstValidStopIndex,
                    response.formationsAtScheduledStops[
                        FindIndex([e \in 1..Len(response.formationsAtScheduledStops) |->
                            response.formationsAtScheduledStops[e].uic = stops[firstValidStopIndex + 1].uic])]) >>]

ProcessStops(response, occupancyData, stopIndex, stops) ==
    IF stops = <<>> THEN [stopIndex |-> <<>>, formation |-> <<>>]
    ELSE ProcessCurrentStop(response, occupancyData, stops,
                            FirstValidStopIndex(stops, stopIndex))

\* a processing that publishes no formation without occupancy data
processFormationDataNeedingOccupancy(response, occupancyData, stopIndex) ==
    IF response.formationsAtScheduledStops = <<>> \/ occupancyData = <<>>
    THEN [stopIndex |-> <<>>, formation |-> <<>>]
    ELSE ProcessStops(response, occupancyData, stopIndex, Stops(response))

processFormationData(response, occupancyData, stopIndex) ==
    IF response.formationsAtScheduledStops = <<>>
    THEN [stopIndex |-> <<>>, formation |-> <<>>]
    ELSE ProcessStops(response, occupancyData, stopIndex, Stops(response))

\* handleApiError: the error it publishes for a status (0 or an absent status
\* is published as 500)
handleApiError(status) ==
    [statusCode |-> IF status = 0 THEN 500 ELSE status,
     message |->
        CASE status = 400 -> "No train formation data available. Please check your search parameters."
          [] status = 401 -> "Authentication failed. Please check your API key."
          [] status = 403 -> "Access to this API has been disallowed."
          [] status = 404 -> "Train formation data not found. The train might not exist for the specified date."
          [] status = 429 -> "Rate limit exceeded. Please wait 1 minute before trying again (maximum 5 requests per minute allowed)."
          [] OTHER -> "An unexpected error occurred. Please try again later."]

(***************************************************************************)
(* Inputs: the formation strings and vehicle sector fields of a response.  *)
(***************************************************************************)
\* longest formation string of the free family, in pieces
MaxPieces == 3

\* most sector segments of a string of the sector family
MaxSegments == 3

\* most leading status characters of a token of the token family
MaxSigils == 2

\* most vehicle tokens of a group of the group family
MaxGroupTokens == 3

\* longest formation string of the bracket family
MaxBrackets == 5

\* all concatenations of at most n elements of parts
RECURSIVE Concats(_, _)
Concats(parts, n) ==
    IF n = 0 THEN {<<>>}
    ELSE LET shorter == Concats(parts, n - 1)
         IN  shorter \cup {p \o t : p \in parts, t \in shorter}

\* all concatenations of exactly n elements of parts, sep between them
RECURSIVE Joined(_, _, _)
Joined(parts, sep, n) ==
    IF n = 1 THEN parts
    ELSE {p \o sep \o t : p \in parts, t \in Joined(parts, sep, n - 1)}

\* free family: any arrangement of structural characters and short tokens
Pieces ==
    { <<"@", "A">>, <<"[">>, <<"]">>, <<"(">>, <<")">>, <<",">>, <<"F">>,
      <<"L", "K">>, <<"1">>, <<"(", "1">>, <<"1", ")">> }

FreeInputs == Concats(Pieces, MaxPieces)

\* sector family: an optional wagon before the first marker, then segments of
\* a sector marker and nothing, a wagon or a fictitious wagon, inside or
\* outside of brackets
SectorSegmentInputs ==
    { <<"@", "A">>, <<"@", "A", "[", "1", "]">>, <<"@", "A", "2">>, <<"@", "A", "F">>,
      <<"@", "A", "[", "F", "]">>, <<"@", "B">>, <<"@", "B", "[", "1", "]">> }

SectorInputs ==
    {p \o t : p \in {<<>>, <<"1", "\\">>},
              t \in Concats(SectorSegmentInputs, MaxSegments) \ {<<>>}}

\* token family: one class:ordinal token with status characters in front and
\* an offer list behind, alone, in a bracket group and in a sector
ClassTokens ==
    {g \o <<c, ":">> \o n \o o :
        g \in Concats({<<x>> : x \in StatusChars}, MaxSigils),
        c \in {"1", "2"},
        n \in {<<"1">>, <<"1", "2">>, <<"2", "3", "0">>},
        o \in {<<>>, <<"#", "N", "F", ";", "V", "H">>}}

TokenInputs ==
    ClassTokens
    \cup {<<"[">> \o t \o <<"]">> : t \in ClassTokens}
    \cup {<<"@", "A", "[">> \o t \o <<"]">> : t \in ClassTokens}

\* group family: one bracket group whose whole content is enclosed in one
\* pair of parentheses, with and without a sector marker in front
GroupTokens == { <<"1", ":", "1", "0">>, <<"2", ":", "2", "0">>, <<"2">>, <<"W", "R">> }

ParenGroupContents ==
    UNION {Joined(GroupTokens, <<",">>, n) : n \in 2..MaxGroupTokens}

ParenGroupInputs ==
    {m \o <<"[", "(">> \o g \o <<")", "]">> :
        m \in {<<>>, <<"@", "A">>}, g \in ParenGroupContents}

\* locomotive family: a locomotive token with status characters in front,
\* alone, behind a wagon, before a wagon and last in a bracket group; and a
\* locomotive token with parentheses behind a wagon, before one and between two
LocomotiveTokens ==
    {g \o <<"L", "K">> :
        g \in Concats({<<x>> : x \in StatusChars}, MaxSigils) \ {<<>>}}

\* a locomotive token with a parenthesis on one side or on both
ParenLocomotives == { <<"(", "L", "K">>, <<"L", "K", ")">>, <<"(", "L", "K", ")">> }

LocomotiveInputs ==
    LocomotiveTokens
    \cup {<<"1", ",">> \o t : t \in ParenLocomotives}
    \cup {t \o <<",", "2">> : t \in ParenLocomotives}
    \cup {<<"1", ",">> \o t \o <<",", "2">> : t \in ParenLocomotives}
    \cup {<<"1", ",">> \o t : t \in LocomotiveTokens}
    \cup {t \o <<",", "2">> : t \in LocomotiveTokens}
    \cup {<<"@", "A", "[", "1", ",">> \o t \o <<"]">> : t \in LocomotiveTokens}

\* bracket family: any arrangement of brackets and a wagon, balanced or not
BracketInputs == Concats({<<"[">>, <<"]">>, <<"1">>}, MaxBrackets)

\* span family: a sector with one bracket group of three wagons with no
\* parenthesised span, or with one at its start, in its middle, at its end or
\* around all of it
GroupSpanContents ==
    { <<"1", ",", "2", ",", "2">>,
      <<"(", "1", ")", ",", "2", ",", "2">>,
      <<"(", "1", ",", "2", ")", ",", "2">>,
      <<"1", ",", "(", "2", ")", ",", "2">>,
      <<"1", ",", "(", "2", ",", "2", ")">>,
      <<"1", ",", "2", ",", "(", "2", ")">>,
      <<"(", "1", ",", "2", ",", "2", ")">> }

GroupSpanInputs == {<<"@", "A", "[">> \o g \o <<"]">> : g \in GroupSpanContents}

\* suffix family: a sector with one bracket group of two items in parentheses,
\* wagons or the fictitious wagon marker, and a group attribute behind them
SuffixGroupItems == { <<"1">>, <<"2">>, <<"F">> }

SuffixGroupInputs ==
    {<<"@", "A", "[", "(">> \o a \o <<",">> \o b \o <<")", "#">> \o code \o <<"]">> :
        a \in SuffixGroupItems, b \in SuffixGroupItems,
        code \in {<<"N", "F">>, <<"K", "W">>}} \ 
    {<<"@", "A", "[", "(", "F", ",", "F", ")", "#">> \o code \o <<"]">> :
        code \in {<<"N", "F">>, <<"K", "W">>}}

\* fictitious family: a sector with one bracket group of one or two items,
\* among them the marker F alone and the codes FA and FZ that begin with F
FictitiousItems == { <<"1">>, <<"F">>, <<"F", "A">>, <<"F", "Z">> }

FictitiousInputs ==
    {<<"@", "A", "[">> \o a \o <<"]">> : a \in FictitiousItems} \cup
    {<<"@", "A", "[">> \o a \o <<",">> \o b \o <<"]">> :
        a \in FictitiousItems, b \in FictitiousItems}

\* nested family: a sector whose bracket group holds a bracket group of its
\* own before, behind or between its wagons, and two sibling groups
NestedInputs ==
    {<<"@", "A", "[">> \o g \o <<"]">> :
        g \in { <<"[", "1", "]", ",", "2">>,
                <<"1", ",", "[", "2", "]">>,
                <<"1", ",", "[", "2", "]", ",", "2">>,
                <<"[", "1", ",", "2", "]">> }}
    \cup { <<"@", "A", "[", "1", "]", "[", "2", "]">>,
           <<"@", "A", "[", "1", "]", ",", "[", "2", "]">> }

\* restaurant family: a restaurant token with and without status characters
\* in front, among them the unserviced sigil, alone and in a sector group
RestaurantInputs ==
    {e[1] \o g \o t \o e[2] :
        e \in { <<<<>>, <<>>>>, <<<<"@", "A", "[">>, <<"]">>>> },
        g \in { <<>>, <<"%">>, <<"-">>, <<"=">>, <<"-", "%">>, <<">", "%">> },
        t \in { <<"W", "R">>, <<"W", "1">>, <<"W", "2">> }}

\* order family: wagons of the two classes in sectors whose label recurs, and
\* in a segment with a wagon before and behind a bracket group
OrderInputs ==
    { <<"@", "A", "[", "1", "]", "@", "B", "[", "2", "]">>,
      <<"@", "A", "[", "1", "]", "@", "B", "[", "2", "]", "@", "A", "[", "1", "]">>,
      <<"@", "A", "[", "1", "]", ",", "2">>,
      <<"@", "A", "1", ",", "[", "2", "]">>,
      <<"@", "A", "[", "1", "]", "[", "2", "]">> }

\* class family: a token of a class code, bare, with a status character or in
\* parentheses, with and without an ordinal and an offer list
TypeClassInputs ==
    {e[1] \o c \o o \o e[2] :
        e \in { <<<<>>, <<>>>>, <<<<"%">>, <<>>>>, <<<<"(">>, <<")">>>> },
        c \in { <<"1">>, <<"2">>, <<"1", "2">> },
        o \in { <<>>, <<"#", "F", "Z">>, <<":", "5", "#", "F", "Z">>, <<"#", "B", "Z">> }}

\* at-sign family: bracket groups that hold an '@' without a sector letter or
\* a whole marker, with wagons outside brackets and a second sector
AtGroupInputs ==
    { <<"@", "A", "[", "1", ",", "@", ",", "2", "]", ",", "2", "@", "B", "2">>,
      <<"@", "A", "[", "@", "1", "]">>,
      <<"@", "[", "1", "]">>,
      <<"[", "1", ",", "@", "B", ",", "2", "]">>,
      <<"1", ",", "@", "A", "[", "@", "2", "]">> }

FormationStrings ==
    FreeInputs \cup SectorInputs \cup TokenInputs \cup ParenGroupInputs
    \cup LocomotiveInputs \cup BracketInputs \cup GroupSpanInputs
    \cup SuffixGroupInputs \cup FictitiousInputs
    \cup NestedInputs
    \cup RestaurantInputs
    \cup OrderInputs
    \cup TypeClassInputs
    \cup AtGroupInputs

\* firstVehicle.sectors: a comma-separated list of sector letters
VehicleSectorInputs ==
    { <<>>, <<"A">>, <<" ", "B", ",">>, <<"B", ",", "A">>, <<"C">> }

\* most searches started in one run of the service
MaxSearches == 2

\* most stop selections whose occupancy callback is pending at one time
MaxStopSelections == 1

\* the stops of the responses of the formation provider: a stop of a first
\* and a second class wagon and a stop of a locomotive; a stop without
\* formation string, a stop without name and a stop of a second class wagon;
\* no stop at all
ResponseStops ==
    { << [name |-> "Bern", uic |-> 1, formationShortString |-> <<"1", ",", "2">>],
         [name |-> "Olten", uic |-> 2, formationShortString |-> <<"L", "K">>] >>,
      << [name |-> "Bern", uic |-> 1, formationShortString |-> <<" ">>],
         [name |-> Null, uic |-> 2, formationShortString |-> <<"1", "2">>],
         [name |-> "Basel", uic |-> 3, formationShortString |-> <<"@", "A", "2">>] >>,
      << >> }

\* the responses a search for a train number can get
ApiResponses(trainNumber) ==
    {[formationsAtScheduledStops |-> stops,
      formationVehicleAtScheduledStops |-> << [uic |-> 3, sectors |-> <<"A">>] >>,
      trainNumber |-> trainNumber] : stops \in ResponseStops}

\* the statuses of a failed request
ErrorStatuses == {404}

\* what getTrainOccupancy yields: null, or the sections of the train, here
\* one with both classes and one with a level that is not in the table
OccupancySections ==
    { << [departureStationName |-> "Bern", destinationStationName |-> "Olten",
          expectedDepartureOccupancies |->
              << [fareClass |-> "FIRST", occupancyLevel |-> "LOW"],
                 [fareClass |-> "SECOND", occupancyLevel |-> "HIGH"] >>],
         [departureStationName |-> "Basel", destinationStationName |-> "Olten",
          expectedDepartureOccupancies |->
              << [fareClass |-> "SECOND", occupancyLevel |-> "NONE"] >>] >> }

OccupancyInputs == {<<>>} \cup {<< [sections |-> q] >> : q \in OccupancySections}

(***************************************************************************)
(* One call of parseFormationString, step by step, followed by one call   *)
(* of determineTravelDirection for the same stop.                         *)
(***************************************************************************)
VARIABLES
    formationShortString,  \* the formationString argument of parseFormationString
    pc,               \* "start", "segments", "brackets" or "done"
    hasSectors,       \* const hasSectors
    sectorSegments,   \* the segments the loop has not yet taken
    sectorSegment,    \* let segment / the segment parameter of processSegment
    activeSector,    \* let currentSector
    wagonPosition,    \* let position
    wagonsBySector,   \* const sectorMap
    sections,         \* the value returned by parseFormationString
    sectors,          \* firstVehicle.sectors given to determineTravelDirection
    travelDirection   \* its result, "none" before the call

\* the state of FormationService and of its requests
VARIABLES
    requests,          \* per search: "idle", then "formation" while its formation
                       \* request is in flight, "occupancy" while its occupancy
                       \* is awaited, and "done" or "failed"; and its response
                       \* while the occupancy is awaited
    currentFormation,  \* currentFormationSubject: <<>> for null
    currentStopIndex,  \* currentStopIndexSubject
    currentError,      \* currentErrorSubject: <<>> for null
    loading,           \* loadingSubject
    lastApiResponse,   \* lastApiResponse: <<>> for null
    stopCallbacks,     \* the stop indices whose occupancy callback is pending
    lastOccupancyData,     \* the occupancyData of the last call of processFormationData
    publishedSearch    \* the search whose formation or error was published last

parserVars == <<formationShortString, pc, hasSectors, sectorSegments, sectorSegment, activeSector,
                wagonPosition, wagonsBySector, sections, sectors, travelDirection>>

serviceVars == <<requests, currentFormation, currentStopIndex, currentError, loading,
                 lastApiResponse, stopCallbacks, lastOccupancyData, publishedSearch>>

vars == <<parserVars, serviceVars>>

\* the service after construction
ServiceInit ==
    /\ requests = [s \in 1..MaxSearches |-> [phase |-> "idle", response |-> <<>>]]
    /\ currentFormation = <<>>
    /\ currentStopIndex = 0
    /\ currentError = <<>>
    /\ loading = FALSE
    /\ lastApiResponse = <<>>
    /\ stopCallbacks = <<>>
    /\ lastOccupancyData = <<>>
    /\ publishedSearch = 0

\* no call of parseFormationString under way
ParserInit ==
    /\ pc = "start"
    /\ hasSectors = FALSE
    /\ sectorSegments = <<>>
    /\ sectorSegment = <<>>
    /\ activeSector = <<>>
    /\ wagonPosition = 0
    /\ wagonsBySector = <<>>
    /\ sections = <<>>
    /\ sectors = <<>>
    /\ travelDirection = "none"

Init ==
    /\ formationShortString \in FormationStrings
    /\ ParserInit
    /\ ServiceInit

\* parseFormationString up to the segment loop
ParseStart ==
    /\ pc = "start"
    /\ pc' = IF Trim(formationShortString) = <<>> THEN "done" ELSE "segments"
    /\ hasSectors' = (Trim(formationShortString) # <<>> /\ HasSectors(formationShortString))
    /\ sectorSegments' = IF Trim(formationShortString) = <<>> THEN <<>>
                         ELSE SectorSegments(formationShortString)
    /\ UNCHANGED <<formationShortString, sectorSegment, activeSector, wagonPosition, wagonsBySector,
                   sections, sectors, travelDirection>>
    /\ UNCHANGED serviceVars

\* the segment loop takes the next segment and enters processSegment
SegmentStart ==
    /\ pc = "segments"
    /\ sectorSegments # <<>>
    /\ \E e \in {SegmentEntry(sectorSegments[1], hasSectors, activeSector, wagonsBySector)} :
          /\ pc' = IF e.skip THEN "segments" ELSE "brackets"
          /\ sectorSegment' = IF e.skip THEN sectorSegment ELSE e.segment
          /\ activeSector' = e.currentSector
          /\ wagonsBySector' = e.sectorMap
    /\ sectorSegments' = Tail(sectorSegments)
    /\ UNCHANGED <<formationShortString, hasSectors, wagonPosition, sections, sectors,
                   travelDirection>>
    /\ UNCHANGED serviceVars

\* one iteration of the bracket loop of processSegment
BracketStep ==
    /\ pc = "brackets"
    /\ extractBracketContent(sectorSegment, "[", "]") # <<>>
    /\ \E it \in {BracketIteration(sectorSegment, activeSector, wagonPosition, wagonsBySector)} :
          /\ sectorSegment' = it.segment
          /\ wagonPosition' = it.position
          /\ wagonsBySector' = it.sectorMap
    /\ UNCHANGED <<formationShortString, pc, hasSectors, sectorSegments, activeSector,
                   sections, sectors, travelDirection>>
    /\ UNCHANGED serviceVars

\* the bracket loop ends; the individual tokens; processSegment returns
TokensStep ==
    /\ pc = "brackets"
    /\ extractBracketContent(sectorSegment, "[", "]") = <<>>
    /\ \E r \in {IndividualTokens(sectorSegment, activeSector, wagonPosition, wagonsBySector)} :
          /\ wagonPosition' = r.position
          /\ wagonsBySector' = r.sectorMap
    /\ pc' = "segments"
    /\ UNCHANGED <<formationShortString, hasSectors, sectorSegments, sectorSegment, activeSector,
                   sections, sectors, travelDirection>>
    /\ UNCHANGED serviceVars

\* after the last segment: the sections of the map, finalized and returned
Finalize ==
    /\ pc = "segments"
    /\ sectorSegments = <<>>
    /\ sections' = SectionsOf(wagonsBySector)
    /\ pc' = "done"
    /\ UNCHANGED <<formationShortString, hasSectors, sectorSegments, sectorSegment, activeSector,
                   wagonPosition, wagonsBySector, sectors, travelDirection>>
    /\ UNCHANGED serviceVars

\* determineTravelDirection for the stop of this formation string
DetermineTravelDirection ==
    /\ pc = "done"
    /\ travelDirection = "none"
    /\ \E s \in VehicleSectorInputs :
          /\ sectors' = s
          /\ travelDirection' = determineTravelDirection(formationShortString, s)
    /\ UNCHANGED <<formationShortString, pc, hasSectors, sectorSegments, sectorSegment,
                   activeSector, wagonPosition, wagonsBySector, sections>>
    /\ UNCHANGED serviceVars

Next ==
    \/ ParseStart
    \/ SegmentStart
    \/ BracketStep
    \/ TokensStep
    \/ Finalize
    \/ DetermineTravelDirection

Spec == Init /\ [][Next]_vars

(***************************************************************************)
(* FormationService: searches, their responses and failures, stop          *)
(* selections and their occupancy callbacks.                               *)
(***************************************************************************)
\* the stop indices a user can ask for, one below and one above those of the
\* longest response included
StopIndices == -1..3

\* the responses of all searches
AllApiResponses == UNION {ApiResponses(trainNumber) : trainNumber \in 1..MaxSearches}

\* processFormationData tabulated over the responses, the occupancies and the
\* stop indices it is called with: <<response, occupancyData, stopIndex, result>>
ProcessedFormationData ==
    UNION {{<<x[1], x[2], index, processFormationData(x[1], x[2], index)>> :
               index \in {i \in StopIndices : i >= 0}} :
           x \in AllApiResponses \X OccupancyInputs}

\* the call processFormationData(response, data, stopIndex) of a handler
Processed(response, data, stopIndex) ==
    (CHOOSE p \in ProcessedFormationData :
        p[1] = response /\ p[2] = data /\ p[3] = stopIndex)[4]

\* the searches started so far; they are numbered in the order of their start
\* and search s asks for train number s
Started == {s \in 1..MaxSearches : requests[s].phase # "idle"}

\* what a call of processFormationData publishes
Publish(published, search, data) ==
    /\ currentFormation' = published.formation
    /\ currentStopIndex' = IF published.stopIndex = <<>> THEN currentStopIndex
                           ELSE published.stopIndex[1]
    /\ lastOccupancyData' = data
    /\ publishedSearch' = search

\* SearchFormComponent.onSearch with a valid form: getFormation up to the
\* request
GetFormation(s) ==
    /\ requests[s].phase = "idle"
    /\ \A t \in 1..(s - 1) : requests[t].phase # "idle"
    /\ currentError' = <<>>
    /\ currentFormation' = <<>>
    /\ loading' = TRUE
    /\ requests' = [requests EXCEPT ![s].phase = "formation"]
    /\ UNCHANGED <<currentStopIndex, lastApiResponse, stopCallbacks, lastOccupancyData,
                   publishedSearch>>
    /\ UNCHANGED parserVars

\* the formation request of search s succeeds: tap, and switchMap to the
\* occupancy of the train
FormationResponse(s) ==
    /\ requests[s].phase = "formation"
    /\ \E response \in ApiResponses(s) :
          /\ lastApiResponse' = <<response>>
          /\ requests' = [requests EXCEPT ![s] = [phase |-> "occupancy",
                                                  response |-> <<response>>]]
    /\ UNCHANGED <<currentFormation, currentStopIndex, currentError, loading,
                   stopCallbacks, lastOccupancyData, publishedSearch>>
    /\ UNCHANGED parserVars

\* the formation request of search s fails: catchError and finalize
FormationError(s) ==
    /\ requests[s].phase = "formation"
    /\ \E status \in ErrorStatuses : currentError' = <<handleApiError(status)>>
    /\ loading' = FALSE
    /\ publishedSearch' = s
    /\ requests' = [requests EXCEPT ![s].phase = "failed"]
    /\ UNCHANGED <<currentFormation, currentStopIndex, lastApiResponse, stopCallbacks,
                   lastOccupancyData>>
    /\ UNCHANGED parserVars

\* the occupancy of search s arrives: map with processFormationData, and
\* finalize
OccupancyResponse(s) ==
    /\ requests[s].phase = "occupancy"
    /\ \E data \in OccupancyInputs :
          \E published \in {Processed(requests[s].response[1], data, 0)} :
              Publish(published, s, data)
    /\ loading' = FALSE
    /\ requests' = [requests EXCEPT ![s] = [phase |-> "done", response |-> <<>>]]
    /\ UNCHANGED <<currentError, lastApiResponse, stopCallbacks>>
    /\ UNCHANGED parserVars

\* updateSelectedStop(index) up to the subscription
UpdateSelectedStop(index) ==
    /\ Len(stopCallbacks) < MaxStopSelections
    /\ IF \/ lastApiResponse = <<>>
          \/ index < 0
          \/ index >= Len(lastApiResponse[1].formationsAtScheduledStops)
       THEN UNCHANGED <<currentStopIndex, stopCallbacks>>
       ELSE /\ currentStopIndex' = index
            /\ stopCallbacks' = Append(stopCallbacks, index)
    /\ UNCHANGED <<requests, currentFormation, currentError, loading, lastApiResponse,
                   lastOccupancyData, publishedSearch>>
    /\ UNCHANGED parserVars

\* the occupancy callback of the k-th pending stop selection
StopOccupancyResponse(k) ==
    /\ k \in 1..Len(stopCallbacks)
    /\ \E data \in OccupancyInputs :
          \E published \in {Processed(lastApiResponse[1], data, stopCallbacks[k])} :
              Publish(published, lastApiResponse[1].trainNumber, data)
    /\ stopCallbacks' = [j \in 1..(Len(stopCallbacks) - 1) |->
                            IF j < k THEN stopCallbacks[j] ELSE stopCallbacks[j + 1]]
    /\ UNCHANGED <<requests, currentError, loading, lastApiResponse>>
    /\ UNCHANGED parserVars

\* clearError()
ClearError ==
    /\ currentError' = <<>>
    /\ UNCHANGED <<requests, currentFormation, currentStopIndex, loading,
                   lastApiResponse, stopCallbacks, lastOccupancyData, publishedSearch>>
    /\ UNCHANGED parserVars

ServiceNext ==
    \/ \E s \in 1..MaxSearches : GetFormation(s)
    \/ \E s \in 1..MaxSearches : FormationResponse(s)
    \/ \E s \in 1..MaxSearches : FormationError(s)
    \/ \E s \in 1..MaxSearches : OccupancyResponse(s)
    \/ \E index \in StopIndices : UpdateSelectedStop(index)
    \/ \E k \in 1..MaxStopSelections : StopOccupancyResponse(k)
    \/ ClearError

\* the service after construction, no formation string being parsed
ServiceStart == formationShortString = <<>> /\ ParserInit /\ ServiceInit

ServiceSpec == ServiceStart /\ [][ServiceNext]_vars

(***************************************************************************)
(* Properties.                                                            *)
(***************************************************************************)
\* parseFormationString has returned
Returned == pc = "done"

\* the returned wagons in section order
AllWagons == Flatten(sections)

\* the same wagons as the segment loop left them, before finalizeTrainSections
ProvisionalWagons == Flatten(SelectSeq(wagonsBySector, HasWagons))

IsLocomotive(wagon) == wagon.type = "locomotive"

\* the characters of a string
Chars(str) == {str[k] : k \in 1..Len(str)}

\* the elements of a sequence
Elements(q) == {q[k] : k \in 1..Len(q)}

\* C1: after parseFormationString returns, the wagons of the returned sections,
\* concatenated in section order, carry the positions 0, 1, ..., n-1 in that
\* order, whatever provisional positions the parsing assigned.
C1_PositionsAreIndices ==
    Returned => \A k \in 1..Len(AllWagons) : AllWagons[k].position = k - 1

\* C1 witness: a returned train of two or more wagons one of which had another
\* provisional position than its final one.
C1_Witness ==
    /\ Returned
    /\ Len(AllWagons) >= 2
    /\ \E k \in 1..Len(ProvisionalWagons) : ProvisionalWagons[k].position # k - 1

\* C2: in the returned wagons, for every adjacent pair of which neither is a
\* locomotive, previous.noAccessToNext equals current.noAccessToPrevious.
C2_NoAccessSymmetry ==
    Returned =>
        \A k \in 1..(Len(AllWagons) - 1) :
            (~IsLocomotive(AllWagons[k]) /\ ~IsLocomotive(AllWagons[k + 1]))
                => AllWagons[k].noAccessToNext = AllWagons[k + 1].noAccessToPrevious

\* C2 witness: an adjacent pair without locomotive that the parsing had marked
\* on one side only and that is returned marked on both sides.
C2_Witness ==
    /\ Returned
    /\ \E k \in 1..(Len(AllWagons) - 1) :
          /\ ~IsLocomotive(AllWagons[k]) /\ ~IsLocomotive(AllWagons[k + 1])
          /\ ProvisionalWagons[k].noAccessToNext
                # ProvisionalWagons[k + 1].noAccessToPrevious
          /\ AllWagons[k].noAccessToNext /\ AllWagons[k + 1].noAccessToPrevious

\* C3: in the returned wagons, for every adjacent pair of which at least one is
\* a locomotive, neither wagon has a no-access flag pointing at the other.
C3_LocomotiveImmunity ==
    Returned =>
        \A k \in 1..(Len(AllWagons) - 1) :
            (IsLocomotive(AllWagons[k]) \/ IsLocomotive(AllWagons[k + 1]))
                => /\ ~AllWagons[k].noAccessToNext
                   /\ ~AllWagons[k + 1].noAccessToPrevious

\* C4: for a formation string that is one bracket group whose whole content is
\* enclosed in one pair of parentheses and holds two or more vehicle tokens,
\* none a locomotive, with or without a sector marker in front, the first
\* returned wagon has noAccessToPrevious and the last has noAccessToNext.
C4_EnclosedGroupMarked ==
    (Returned /\ formationShortString \in ParenGroupInputs) =>
        /\ Len(AllWagons) >= 2
        /\ AllWagons[1].noAccessToPrevious
        /\ AllWagons[Len(AllWagons)].noAccessToNext

\* the class digit of a token of the token family: the character before the colon
TokenClass(str) == str[JsIndexOf(str, <<":">>, 0)]

\* its ordinal: the digits after the colon
TokenOrdinal(str) ==
    SubSeq(str, JsIndexOf(str, <<":">>, 0) + 2,
           JsIndexOf(str, <<":">>, 0) + 1
               + RunLength(str, JsIndexOf(str, <<":">>, 0) + 1, Digits))

\* C5: a token of leading status characters, a class c, a colon, an ordinal n
\* of one to three digits and an optional offer list decodes to one wagon of
\* type first-class for c = 1 and second-class for c = 2, of classes [c] and
\* of number n.
C5_ClassTokenDecoded ==
    (Returned /\ formationShortString \in TokenInputs) =>
        /\ Len(AllWagons) = 1
        /\ AllWagons[1].type = (IF TokenClass(formationShortString) = "1"
                                THEN "first-class" ELSE "second-class")
        /\ AllWagons[1].classes = <<TokenClass(formationShortString)>>
        /\ AllWagons[1].number = TokenOrdinal(formationShortString)

\* the string holds a sector marker: '@' followed by a capital letter
HasMarker(str) == \E i \in 1..(Len(str) - 1) : str[i] = "@" /\ str[i + 1] \in UpperCase

\* the labels the markers of a string name
MarkerLabels(str) ==
    {<<str[i + 1]>> : i \in {j \in 1..(Len(str) - 1) : str[j] = "@" /\ str[j + 1] \in UpperCase}}

\* C6 as stated: for a formation string with at least one sector marker, every
\* returned section is labelled by a letter that follows an '@' in the string,
\* never by the empty label, also when wagons precede the first marker.
C6_LabelsAreMarkerLetters ==
    (Returned /\ HasMarker(formationShortString)) =>
        \A k \in 1..Len(sections) : sections[k].sector \in MarkerLabels(formationShortString)

\* C6 amended: for a formation string with at least one sector marker, every
\* returned section is labelled by a letter that follows an '@' in the string
\* or by the empty label, and by the empty label only when the string does not
\* begin with a sector marker.
C6_LabelsAreMarkerLettersOrEmpty ==
    (Returned /\ HasMarker(formationShortString)) =>
        \A k \in 1..Len(sections) :
            \/ sections[k].sector \in MarkerLabels(formationShortString)
            \/ /\ sections[k].sector = <<>>
               /\ ~(formationShortString[1] = "@" /\ formationShortString[2] \in UpperCase)

\* C6 witness: a string with a marker returned with a section of the empty
\* label for the wagons before the first marker and a section of a letter.
C6_Witness ==
    /\ Returned
    /\ HasMarker(formationShortString)
    /\ \E k \in 1..Len(sections) : sections[k].sector = <<>>
    /\ \E k \in 1..Len(sections) : sections[k].sector \in MarkerLabels(formationShortString)

\* JavaScript index of the first marker of a label in the formation string
FirstAppearance(label) == JsIndexOf(formationShortString, <<"@">> \o label, 0)

IsPrefix(p, q) == Len(p) <= Len(q) /\ SubSeq(q, 1, Len(p)) = p

\* the returned sections have pairwise distinct labels, stand in the order of
\* the first appearance of their labels, and are the sectors of the map that
\* hold wagons
C7_DistinctInOrder ==
    Returned =>
        /\ \A i, j \in 1..Len(sections) :
              i < j => /\ sections[i].sector # sections[j].sector
                       /\ (sections[i].sector # <<>> /\ sections[j].sector # <<>>)
                             => FirstAppearance(sections[i].sector)
                                    < FirstAppearance(sections[j].sector)
        /\ Len(sections) = Len(SelectSeq(wagonsBySector, HasWagons))
        /\ \A k \in 1..Len(sections) :
              /\ sections[k].sector = SelectSeq(wagonsBySector, HasWagons)[k].sector
              /\ Len(sections[k].wagons) = Len(SelectSeq(wagonsBySector, HasWagons)[k].wagons)

\* every step keeps each sector of the map in place and only appends wagons to it
C7_Appends ==
    \A k \in 1..Len(wagonsBySector) :
        /\ k <= Len(wagonsBySector')
        /\ wagonsBySector'[k].sector = wagonsBySector[k].sector
        /\ IsPrefix(wagonsBySector[k].wagons, wagonsBySector'[k].wagons)

\* C7: the returned sections have pairwise distinct labels; a later segment that
\* reuses a label appends its wagons to the section of that label instead of
\* opening a second one; the sections are ordered by the first appearance of
\* their label in the string.
C7_SectionsPerLabel == [](C7_DistinctInOrder) /\ [][C7_Appends]_vars

\* C7 witness: a returned section whose wagons come from two segments, with a
\* wagon of another section parsed between them.
C7_Witness ==
    /\ Returned
    /\ Len(sections) >= 2
    /\ \E k, m \in 1..Len(wagonsBySector) :
          /\ k # m
          /\ \E i \in 1..(Len(wagonsBySector[k].wagons) - 1) :
                \E j \in 1..Len(wagonsBySector[m].wagons) :
                    /\ wagonsBySector[k].wagons[i].position < wagonsBySector[m].wagons[j].position
                    /\ wagonsBySector[m].wagons[j].position < wagonsBySector[k].wagons[i + 1].position

\* the segments of the formation string, one per sector marker, and the text
\* before the first marker
SegmentsOf(str) == IF HasMarker(str) THEN SplitSectors(str, <<>>) ELSE <<str>>

StartsWithMarker(seg) == Len(seg) >= 2 /\ seg[1] = "@" /\ seg[2] \in UpperCase

SegmentLabel(seg) == IF StartsWithMarker(seg) THEN <<seg[2]>> ELSE <<>>

SegmentText(seg) == IF StartsWithMarker(seg) THEN JsSubstringFrom(seg, 2) ELSE seg

\* the text holds only fictitious markers and unrecognised text
HoldsNoVehicle(text) ==
    \A t \in Elements(SplitOn(text, {"[", "]", "(", ")", ",", "\\"}, <<>>)) :
        Trim(t) = <<>> \/ t = <<"F">> \/ ~isPotentialWagonToken(t)

\* C8: no returned section has zero wagons, and a sector whose segments hold
\* only fictitious 'F' markers or unrecognised text yields no section.
C8_NoEmptySection ==
    Returned =>
        \A k \in 1..Len(sections) :
            /\ sections[k].wagons # <<>>
            /\ \E seg \in Elements(SegmentsOf(formationShortString)) :
                  /\ SegmentLabel(seg) = sections[k].sector
                  /\ ~HoldsNoVehicle(SegmentText(seg))

NoSectorsNoBrackets(str) == Chars(str) \cap {"@", "[", "]"} = {}

\* the tokens of a string without sectors and brackets that resolve to a wagon
ResolvingTokens(str) ==
    {t \in Elements(SplitOn(str, {",", "\\"}, <<>>)) :
        Trim(t) # <<>> /\ t # <<"F">> /\ isPotentialWagonToken(t)}

\* C9: a formation string without '@' and without brackets returns at most one
\* section, labelled by the empty string, and returns no section exactly when
\* none of its tokens resolves to a wagon.
C9_DefaultSection ==
    (Returned /\ NoSectorsNoBrackets(formationShortString)) =>
        /\ Len(sections) <= 1
        /\ \A k \in 1..Len(sections) : sections[k].sector = <<>>
        /\ (sections = <<>>) <=> (ResolvingTokens(formationShortString) = {})

\* C9 witness: such a string returned as one section of two or more wagons.
C9_Witness ==
    /\ Returned
    /\ NoSectorsNoBrackets(formationShortString)
    /\ Len(sections) = 1
    /\ sections[1].sector = <<>>
    /\ Len(sections[1].wagons) >= 2

\* the non-blank labels of the returned sections, in order
ParsedLabels == SelectSeq([k \in 1..Len(sections) |-> sections[k].sector], NotBlank)

\* the sector set of the first vehicle
VehicleSectorSet == {Trim(t) : t \in Elements(SplitOn(sectors, {","}, <<>>))} \ {<<>>}

\* C10: determineTravelDirection answers 'left' exactly when the label of the
\* first non-blank section is in the vehicle's sector set, 'right' exactly when
\* that fails and the label of the last one is in it, and 'unknown' otherwise,
\* also for a blank formation string, for sections without non-blank label and
\* for a sectors field that is missing or yields no entry.
C10_TravelDirection ==
    travelDirection # "none" =>
        travelDirection =
            IF ParsedLabels = <<>> \/ VehicleSectorSet = {} THEN "unknown"
            ELSE IF ParsedLabels[1] \in VehicleSectorSet THEN "left"
            ELSE IF ParsedLabels[Len(ParsedLabels)] \in VehicleSectorSet THEN "right"
            ELSE "unknown"

\* C10 witness: the direction 'right' for a train of two or more labelled
\* sections whose first label is not in the vehicle's sector set.
C10_Witness ==
    /\ travelDirection = "right"
    /\ Len(ParsedLabels) >= 2
    /\ ParsedLabels[1] \notin VehicleSectorSet

\* the wagons of the published formation
PublishedWagons ==
    IF currentFormation = <<>> THEN <<>> ELSE Flatten(currentFormation[1].sections)

\* the occupancy dataset given to the call that published the formation has a
\* section that departs from the current stop of the formation
DatasetHasCurrentStop ==
    /\ currentFormation # <<>>
    /\ lastOccupancyData # <<>>
    /\ \E k \in 1..Len(lastOccupancyData[1].sections) :
          lastOccupancyData[1].sections[k].departureStationName =
              currentFormation[1].currentStop

C11_OnlyForClassAndStop ==
    \A k \in 1..Len(PublishedWagons) :
        /\ "firstClassOccupancy" \in DOMAIN PublishedWagons[k] =>
               /\ SeqIncludes(PublishedWagons[k].classes, "1")
               /\ DatasetHasCurrentStop
        /\ "secondClassOccupancy" \in DOMAIN PublishedWagons[k] =>
               /\ SeqIncludes(PublishedWagons[k].classes, "2")
               /\ DatasetHasCurrentStop

\* a step that publishes a formation publishes no error
C11_NoErrorPublished ==
    (currentFormation' # <<>> /\ currentFormation' # currentFormation) =>
        currentError' = currentError

\* C11: in the formation published by processFormationData a wagon has
\* firstClassOccupancy only if its classes contain '1' and the occupancy
\* dataset has a section departing from the current stop, and
\* secondClassOccupancy only if its classes contain '2' and there is such a
\* section; so without a matching section no wagon has an occupancy field, and
\* the step that publishes the formation leaves the published error alone.
C11_OccupancyMerge ==
    /\ []C11_OnlyForClassAndStop
    /\ [][C11_NoErrorPublished]_vars

\* a formation is published, from a dataset with a section for its stop, in
\* which a first class wagon got its occupancy only and a second class wagon
\* its occupancy only
C11_Witness ==
    /\ DatasetHasCurrentStop
    /\ \E k \in 1..Len(PublishedWagons) :
          /\ "firstClassOccupancy" \in DOMAIN PublishedWagons[k]
          /\ "secondClassOccupancy" \notin DOMAIN PublishedWagons[k]
    /\ \E k \in 1..Len(PublishedWagons) :
          /\ "secondClassOccupancy" \in DOMAIN PublishedWagons[k]
          /\ "firstClassOccupancy" \notin DOMAIN PublishedWagons[k]

\* C12: in every returned wagon, statusCodes that contain 'Closed' are exactly
\* ['Closed']: Closed is never combined with 'Group boarding', 'Reserved for
\* transit' or 'Open but unserviced'.
C12_ClosedIsExclusive ==
    Returned =>
        \A k \in 1..Len(AllWagons) :
            SeqIncludes(AllWagons[k].statusCodes, "Closed") =>
                AllWagons[k].statusCodes = <<"Closed">>

\* a closed wagon is returned for a string that also carries one of the other
\* three sigils
C12_Witness ==
    /\ Returned
    /\ \E k \in 1..Len(AllWagons) : AllWagons[k].statusCodes = <<"Closed">>
    /\ Len(AllWagons) = 1
    /\ Chars(formationShortString) \cap {">", "=", "%"} # {}

\* C13: every returned wagon of type locomotive has an empty statusCodes list,
\* whatever status sigils its token carried and wherever it stands in the
\* train.
C13_LocomotiveWithoutStatus ==
    Returned =>
        \A k \in 1..Len(AllWagons) :
            IsLocomotive(AllWagons[k]) => AllWagons[k].statusCodes = <<>>

\* a locomotive that is not the first wagon is returned, and its token gave it
\* status codes before finalizeTrainSections
C13_Witness ==
    /\ Returned
    /\ Len(ProvisionalWagons) = Len(AllWagons)
    /\ \E k \in 2..Len(AllWagons) :
          /\ IsLocomotive(AllWagons[k])
          /\ ProvisionalWagons[k].statusCodes # <<>>
          /\ AllWagons[k].statusCodes = <<>>

\* C14: in every returned wagon, noAccessMessage is set only if
\* noAccessToPrevious or noAccessToNext is true on that wagon, also after the
\* flags of a locomotive have been cleared.
C14_MessageOnlyWithFlag ==
    Returned =>
        \A k \in 1..Len(AllWagons) :
            AllWagons[k].noAccessMessage # Undefined =>
                (AllWagons[k].noAccessToPrevious \/ AllWagons[k].noAccessToNext)

\* a locomotive whose token gave it a no-access flag is returned with both
\* flags false and without message
C14_Witness ==
    /\ Returned
    /\ Len(ProvisionalWagons) = Len(AllWagons)
    /\ \E k \in 1..Len(AllWagons) :
          /\ IsLocomotive(AllWagons[k])
          /\ (ProvisionalWagons[k].noAccessToPrevious \/ ProvisionalWagons[k].noAccessToNext)
          /\ ~AllWagons[k].noAccessToPrevious
          /\ ~AllWagons[k].noAccessToNext
          /\ AllWagons[k].noAccessMessage = Undefined

\* what is left of the call: the characters of the segments not yet taken and
\* two steps for each of them, the characters of the segment in the bracket
\* loop and one step for its tokens, one step for the return and one for the
\* travel direction
RECURSIVE SegmentsMeasure(_)
SegmentsMeasure(segments) ==
    IF segments = <<>> THEN 0
    ELSE Len(segments[1]) + 2 + SegmentsMeasure(Tail(segments))

C16_Measure ==
    (IF travelDirection = "none" THEN 1 ELSE 0)
    + (CASE pc = "start" -> 3 * Len(formationShortString) + 4
         [] pc = "segments" -> SegmentsMeasure(sectorSegments) + 1
         [] pc = "brackets" ->
                Len(sectorSegment) + 1 + SegmentsMeasure(sectorSegments) + 1
         [] pc = "done" -> 0)

\* a pass of the bracket loop leaves a shorter segment
C16_BracketLoopProgress ==
    (pc = "brackets" /\ pc' = "brackets") => Len(sectorSegment') < Len(sectorSegment)

\* C16: parseFormationString terminates on every input string: every step of
\* the call lowers a measure that is a natural number, and in particular
\* every pass of the bracket loop of processSegment shortens the segment, also
\* for unbalanced, nested, empty or stray brackets.
C16_Terminates ==
    /\ [](C16_Measure \in Nat)
    /\ [][C16_Measure' < C16_Measure /\ C16_BracketLoopProgress]_vars

\* the call has returned for a string of nested brackets after the bracket
\* loop has cut its segment down
C16_Witness ==
    /\ Returned
    /\ formationShortString \in BracketInputs
    /\ Includes(formationShortString, <<"[", "[">>)
    /\ Includes(formationShortString, <<"]", "]">>)
    /\ Len(sectorSegment) < Len(formationShortString)

\* the search started last, 0 before the first search
LatestSearch == IF Started = {} THEN 0 ELSE CHOOSE s \in Started : \A t \in Started : t <= s

\* no request of a search and no occupancy request of a stop selection is in
\* flight
Settled ==
    /\ \A s \in Started : requests[s].phase \in {"done", "failed"}
    /\ stopCallbacks = <<>>

\* C17: last-request-wins: a formation or error that is published while a
\* newer search has been started is never the result of an earlier search
\* (getFormation clears both, so what is published then was published after
\* the newer search started), and once all requests have settled what was
\* published last is the result of the search started last.
C17_LastRequestWins ==
    /\ (currentFormation # <<>> \/ currentError # <<>>) => publishedSearch = LatestSearch
    /\ (Settled /\ Started # {}) => publishedSearch = LatestSearch

\* the content of the bracket group of a string of the span family
SpanGroupContent == SubSeq(formationShortString, 4, Len(formationShortString) - 1)

\* C18: in a bracket group the first wagon produced has noAccessToPrevious only
\* if a parenthesis opens at the very start of the group content, and the last
\* wagon produced has noAccessToNext only if a parenthesis closes at its very
\* end; a parenthesised span in the middle of the group marks neither. The
\* wagons are taken as parseVehicleGroup produced them, before the
\* cross-wagon pass of finalizeTrainSections.
C18_GroupRuleOnlyAtEdges ==
    (Returned /\ formationShortString \in GroupSpanInputs /\ ProvisionalWagons # <<>>) =>
        /\ ProvisionalWagons[1].noAccessToPrevious =>
               SpanGroupContent[1] = "("
        /\ ProvisionalWagons[Len(ProvisionalWagons)].noAccessToNext =>
               SpanGroupContent[Len(SpanGroupContent)] = ")"

\* the items between the parentheses of a string of the suffix family and
\* the code of its suffix
SuffixItems ==
    SplitOn(SubSeq(formationShortString, 5, JsIndexOf(formationShortString, <<")">>, 0)),
            {","}, <<>>)

SuffixCode ==
    IF JsIndexOf(formationShortString, <<"#", "N", "F">>, 0) >= 0 THEN "NF" ELSE "KW"

\* the index of the last item that is not the fictitious wagon marker
LastRealItem ==
    CHOOSE k \in 1..Len(SuffixItems) :
        /\ SuffixItems[k] # <<"F">>
        /\ \A j \in (k + 1)..Len(SuffixItems) : SuffixItems[j] = <<"F">>

\* C19: the attribute of a trailing #CODE suffix of a bracket group is added
\* to exactly one wagon, the one produced from the last item of the group that
\* is not a fictitious 'F' marker: not to an earlier wagon, not to a wagon
\* produced from an 'F', and the suffix produces no wagon of its own. The
\* wagons are taken as parseVehicleGroup produced them.
C19_GroupAttributesOnLastRealWagon ==
    (Returned /\ formationShortString \in SuffixGroupInputs) =>
        /\ Len(ProvisionalWagons) = Len(SuffixItems)
        /\ \A k \in 1..Len(ProvisionalWagons) :
              HasCode(ProvisionalWagons[k].attributes, SuffixCode) <=> k = LastRealItem

\* the content of the bracket group of a string of the fictitious family, its
\* maximal runs of non-structural characters, and the tokens the tokenizer
\* makes of such runs
FictitiousContent == SubSeq(formationShortString, 4, Len(formationShortString) - 1)

IsNonEmpty(run) == run # <<>>

IsRunToken(token) ==
    token.type \in {"SECTOR", "FICTITIOUS_WAGON", "VEHICLE", "UNKNOWN"}

FictitiousRuns ==
    SelectSeq(SplitOn(FictitiousContent, {"[", "]", "(", ")", ",", "\\"}, <<>>),
              IsNonEmpty)

FictitiousRunTokens ==
    SelectSeq(tokenizeFormationString(FictitiousContent), IsRunToken)

\* C20: tokenizeFormationString emits a FICTITIOUS_WAGON token for an 'F'
\* exactly when the F is a whole token between structural characters or the
\* string boundary; an F that begins a longer run (FA, FZ) stays part of that
\* run: the run tokens are the runs of the content, one token each, and a
\* token is a fictitious wagon exactly when its run is "F".
C20_FictitiousOnlyWholeToken ==
    (Returned /\ formationShortString \in FictitiousInputs) =>
        /\ Len(FictitiousRunTokens) = Len(FictitiousRuns)
        /\ \A k \in 1..Len(FictitiousRunTokens) :
              /\ FictitiousRunTokens[k].value = FictitiousRuns[k]
              /\ FictitiousRunTokens[k].type = "FICTITIOUS_WAGON"
                    <=> FictitiousRuns[k] = <<"F">>

\* the number of vehicle tokens of a string of the nested family: its digits
RECURSIVE DigitCount(_)
DigitCount(str) ==
    IF str = <<>> THEN 0
    ELSE (IF str[1] \in Digits THEN 1 ELSE 0) + DigitCount(Tail(str))

\* C21: processSegment removes exactly the span of the extracted bracket group
\* from the remaining text, so that every vehicle token of the segment yields
\* exactly one wagon, none parsed twice and none dropped, also when bracket
\* groups are nested: the returned wagons are as many as the vehicle tokens.
C21_EveryVehicleOnce ==
    (Returned /\ formationShortString \in NestedInputs) =>
        Len(AllWagons) = DigitCount(formationShortString)

\* C22: a wagon decoded from a restaurant token (WR, W1, W2) carries the
\* implicit Restaurant attribute exactly when the token has no unserviced
\* sigil '%', and no wagon whose statusCodes contain 'Open but unserviced' has
\* the Restaurant attribute.
C22_RestaurantUnlessUnserviced ==
    Returned =>
        /\ formationShortString \in RestaurantInputs =>
              \A k \in 1..Len(AllWagons) :
                  HasCode(AllWagons[k].attributes, "WR")
                      <=> ~Includes(formationShortString, <<"%">>)
        /\ \A k \in 1..Len(AllWagons) :
              "Open but unserviced" \in Elements(AllWagons[k].statusCodes)
                  => ~HasCode(AllWagons[k].attributes, "WR")

\* the step in which the occupancy of search s arrives as null
NullOccupancyArrives(s) ==
    /\ requests[s].phase = "occupancy"
    /\ requests'[s].phase = "done"
    /\ lastOccupancyData' = <<>>

\* the formation string of the stop of a response with the given uic is
\* parsed into the given sections
ParsedFrom(response, uic, parsed) ==
    \E k \in 1..Len(response.formationsAtScheduledStops) :
        /\ response.formationsAtScheduledStops[k].uic = uic
        /\ parsed = parseFormationString(
                        response.formationsAtScheduledStops[k].formationShortString)

\* what a search publishes for its response when the occupancy is null
PublishedWithoutOccupancy(response, error, newError, newFormation, newStopIndex) ==
    /\ newError = error
    /\ (\E k \in 1..Len(response.formationsAtScheduledStops) :
            HasFormation(response.formationsAtScheduledStops[k]))
          => newFormation # <<>>
    /\ newFormation # <<>> =>
          /\ ParsedFrom(response, newFormation[1].stops[newStopIndex + 1].uic,
                        newFormation[1].sections)
          /\ \A k \in 1..Len(Flatten(newFormation[1].sections)) :
                /\ "firstClassOccupancy" \notin DOMAIN Flatten(newFormation[1].sections)[k]
                /\ "secondClassOccupancy" \notin DOMAIN Flatten(newFormation[1].sections)[k]

IsDigit(c) == c \in Digits

\* the vehicle tokens of a string of the order family, from left to right
TokensInStringOrder == SelectSeq(formationShortString, IsDigit)

\* C24: the flattened output of parseFormationString, sections in order and
\* the wagons of each section in order, lists the wagons in the left-to-right
\* order of their tokens in the formation string, also when a sector label
\* recurs and when a segment has tokens outside its bracket groups.
C24_StringOrder ==
    (Returned /\ formationShortString \in OrderInputs) =>
        /\ Len(AllWagons) = Len(TokensInStringOrder)
        /\ \A k \in 1..Len(AllWagons) :
              AllWagons[k].classes = <<TokensInStringOrder[k]>>

\* the fields of a wagon that do not name its sector
WithoutSector(wagon) ==
    [type |-> wagon.type, classes |-> wagon.classes, number |-> wagon.number,
     attributes |-> wagon.attributes, statusCodes |-> wagon.statusCodes,
     noAccessToPrevious |-> wagon.noAccessToPrevious,
     noAccessToNext |-> wagon.noAccessToNext]

WagonsWithoutSector(wagons) == [k \in 1..Len(wagons) |-> WithoutSector(wagons[k])]

\* the strings "[g]" of the token family and of the group family, and the
\* group of a fictitious wagon
BareGroupInputs ==
    {str \in TokenInputs \cup ParenGroupInputs : str[1] = "["}
    \cup { <<"[", "F", "]">> }

\* C25: for a bracket group content g without '@', parsing "[g]" and parsing
\* "@A[g]" return the same sequence of wagons: same count, type, classes,
\* number, attributes, statusCodes and no-access flags; only the sector label
\* differs.
C25_SectorPathEquivalence ==
    (Returned /\ formationShortString \in BareGroupInputs) =>
        WagonsWithoutSector(AllWagons) =
            WagonsWithoutSector(
                Flatten(parseFormationString(<<"@", "A">> \o formationShortString)))

\* C26: for every wagon decoded by parseVehicleToken, type and classes agree:
\* first-class implies classes = ['1'], second-class implies classes = ['2'],
\* first-and-second-class implies that classes contain '1' and '2', also for
\* tokens with an attribute suffix, with status sigils or with parentheses.
C26_TypeAndClassesAgree ==
    Returned =>
        \A k \in 1..Len(AllWagons) :
            /\ AllWagons[k].type = "first-class" => AllWagons[k].classes = <<"1">>
            /\ AllWagons[k].type = "second-class" => AllWagons[k].classes = <<"2">>
            /\ AllWagons[k].type = "first-and-second-class" =>
                  /\ SeqIncludes(AllWagons[k].classes, "1")
                  /\ SeqIncludes(AllWagons[k].classes, "2")

\* C27: in the output of parseFormationString every wagon's sector field is
\* the sector label of the section that contains it, also for groups that
\* contain '@' characters and for wagons parsed from tokens outside brackets.
C27_SectorFieldIsSectionLabel ==
    Returned =>
        \A k \in 1..Len(sections) :
            \A j \in 1..Len(sections[k].wagons) :
                sections[k].wagons[j].sector = sections[k].sector

\* a string whose group holds an '@' has returned two sections of different
\* labels, one of them with a wagon from a group and one from outside brackets
C27_Witness ==
    /\ Returned
    /\ formationShortString \in AtGroupInputs
    /\ Len(sections) = 2
    /\ sections[1].sector # sections[2].sector
    /\ Len(sections[1].wagons) >= 2
    /\ Len(sections[2].wagons) >= 1

\* C28: over every interleaving of getFormation calls, their responses and
\* failures, updateSelectedStop calls, their occupancy callbacks and
\* clearError calls, currentFormation$ and currentError$ never both hold a
\* non-null value.
C28_NeverFormationAndError ==
    ~(currentFormation # <<>> /\ currentError # <<>>)

\* C29: whenever currentFormation$ holds a formation, currentStopIndex$ is a
\* valid index into the stops of that formation, 0 <= index < stops.length,
\* at every moment between and after calls of getFormation and
\* updateSelectedStop, also when stops with a blank formation string were
\* filtered out of the list.
C29_StopIndexValid ==
    currentFormation # <<>> =>
        /\ 0 <= currentStopIndex
        /\ currentStopIndex < Len(currentFormation[1].stops)

\* a getFormation request has been started and has neither completed nor failed
InFlight(s) == requests[s].phase \in {"formation", "occupancy"}

\* C30: loading$ is true at every moment at which at least one getFormation
\* request has been started and has not yet completed or failed, also when two
\* requests overlap, and it is false once every started request has settled.
C30_LoadingWhileInFlight ==
    /\ (\E s \in 1..MaxSearches : InFlight(s)) => loading
    /\ (\A s \in 1..MaxSearches : ~InFlight(s)) => ~loading
====
